---- MODULE Spec2Model ----
(***************************************************************************)
(* A model of curriculum-gen (package timetable): the Faculty and          *)
(* Timetable structures, the Validator cost terms and the Solver's         *)
(* single shot and multi-shot funnel.                                      *)
(*                                                                         *)
(* Python lists indexed from 0 are functions over 0..n-1; lists whose      *)
(* order matters and that grow (used_rooms, the list of results, a stream  *)
(* of lines) are sequences.  None is -1 for an optional int and the record *)
(* NoTimetable for an optional Timetable.                                  *)
(***************************************************************************)
EXTENDS Integers, Sequences, FiniteSets, TLC

\* ------------------------------------------------------------------ bounds
MaxCurricula == 2
MaxMembers == 2
MaxConstraints == 1
MaxLines == 2
MaxRefresh == 1
MaxShots == 2
MaxSlices == 2
MaxIterations == 2
MaxRejects == 1

\* ----------------------------------------------------------------- helpers
Min2(a, b) == IF a <= b THEN a ELSE b

SetMin(S) == CHOOSE x \in S : \A y \in S : x <= y

\* F(x) with x evaluated once: a local variable of the source
With(x, F(_)) == CHOOSE r \in {F(v) : v \in {x}} : TRUE

RECURSIVE SumOver(_, _)
\* sum of f[x] for x in S
SumOver(f, S) ==
    IF S = {} THEN 0
    ELSE With(CHOOSE y \in S : TRUE, LAMBDA x :
         With(S \ {x}, LAMBDA rest : f[x] + SumOver(f, rest)))

\* timetable[c][p] = v on a list of lists
SetCell(g, c, p, v) ==
    [i \in DOMAIN g |-> [j \in DOMAIN g[i] |-> IF i = c /\ j = p THEN v ELSE g[i][j]]]

\* list.index(x), 0-based; -1 stands for the ValueError of a missing element
IndexOf(seq, x) ==
    IF \E i \in 1..Len(seq) : seq[i] = x
    THEN (CHOOSE i \in 1..Len(seq) : seq[i] = x /\ \A j \in 1..(i - 1) : seq[j] # x) - 1
    ELSE -1

\* ------------------------------------------------ Faculty (structures.py)
\* Faculty.days
Days(F) == F.periods \div F.periods_per_day

\* [c.name for c in course_vect]
CourseNamesOf(cv) == [i \in 1..Len(cv) |-> cv[i].name]

\* conflict = [[False ...] ...]
NoConflict(C) == [a \in 0..(C - 1) |-> [b \in 0..(C - 1) |-> FALSE]]

\* availability = [[True ...] ...]
AllAvailable(C, T) == [c \in 0..(C - 1) |-> [p \in 0..(T - 1) |-> TRUE]]

\* conflict[i1][i2] = True; conflict[i2][i1] = True, for every pair given
MarkPairs(cf, pairs) ==
    [a \in DOMAIN cf |-> [b \in DOMAIN cf[a] |->
        cf[a][b] \/ <<a, b>> \in pairs \/ <<b, a>> \in pairs]]

\* combinations(members, 2) mapped through course_names.index
CurriculumPairs(names, members) ==
    { <<IndexOf(names, members[i]), IndexOf(names, members[j])>> :
        <<i, j>> \in { q \in (1..Len(members)) \X (1..Len(members)) : q[1] < q[2] } }

\* One line of the CURRICULA section: the conflicts of its member pairs.
\* ok is FALSE when course_names.index raises ValueError.
AddCurriculum(cf, names, members) ==
    LET pairs == CurriculumPairs(names, members)
    IN  IF \E q \in pairs : q[1] = -1 \/ q[2] = -1
        THEN [ok |-> FALSE, conflict |-> cf]
        ELSE [ok |-> TRUE, conflict |-> MarkPairs(cf, pairs)]

\* One line of the UNAVAILABILITY_CONSTRAINTS section.
\* ok is FALSE on ValueError (unknown course) or IndexError (p out of range).
AddConstraint(av, names, ppd, course_name, day_index, period_index) ==
    LET p == day_index * ppd + period_index
        c == IndexOf(names, course_name)
    IN  IF c = -1 \/ p \notin DOMAIN av[c]
        THEN [ok |-> FALSE, availability |-> av]
        ELSE [ok |-> TRUE, availability |-> SetCell(av, c, p, FALSE)]

\* "Add same-teacher constraints"
AddTeacherConstraints(cf, cv) ==
    MarkPairs(cf, { q \in (0..(Len(cv) - 1)) \X (0..(Len(cv) - 1)) :
                      q[1] < q[2] /\ cv[q[1] + 1].teacher = cv[q[2] + 1].teacher })

RECURSIVE FoldCurricula(_, _, _, _)
FoldCurricula(cf, names, cur, k) ==
    IF k > Len(cur) THEN cf
    ELSE With(AddCurriculum(cf, names, cur[k].members).conflict, LAMBDA marked :
            FoldCurricula(marked, names, cur, k + 1))

RECURSIVE FoldConstraints(_, _, _, _, _)
FoldConstraints(av, names, ppd, cons, k) ==
    IF k > Len(cons) THEN av
    ELSE With(AddConstraint(av, names, ppd, cons[k].course, cons[k].day,
                            cons[k].period).availability, LAMBDA marked :
            FoldConstraints(marked, names, ppd, cons, k + 1))

\* Faculty.from_stream on a well-formed input: the instance it returns.
\* course_vect and curricula_vect are sequences (position i is index i-1);
\* room_vect[0] is the unused sentinel (None in the code; "<None>" here is a
\* name no input line can carry).
FacultyFromStream(in) ==
    LET C == Len(in.courses)
        T == in.days * in.periods_per_day
        names == CourseNamesOf(in.courses)
    IN  [ name |-> in.name,
          rooms |-> Len(in.rooms),
          courses |-> C,
          periods |-> T,
          periods_per_day |-> in.periods_per_day,
          curricula |-> Len(in.curricula),
          course_vect |-> in.courses,
          room_vect |-> [r \in 0..Len(in.rooms) |->
                            IF r = 0 THEN [name |-> "<None>", capacity |-> 0] ELSE in.rooms[r]],
          curricula_vect |-> in.curricula,
          availability |-> FoldConstraints(AllAvailable(C, T), names, in.periods_per_day,
                                           in.constraints, 1),
          conflict |-> AddTeacherConstraints(
                          FoldCurricula(NoConflict(C), names, in.curricula, 1), in.courses),
          course_names |-> names,
          room_names |-> [r \in 1..(Len(in.rooms) + 1) |->
                            IF r = 1 THEN "<None>" ELSE in.rooms[r - 1].name] ]

\* ---------------------------------------------- Timetable (structures.py)
ZeroGrid(F) == [c \in 0..(F.courses - 1) |-> [p \in 0..(F.periods - 1) |-> 0]]

\* the zeroed redundant data built at the top of Timetable.from_stream
ZeroCaches(F) ==
    [ room_lectures |-> [r \in 0..F.rooms |-> [p \in 0..(F.periods - 1) |-> 0]],
      curriculum_period_lectures |->
          [g \in 0..(F.curricula - 1) |-> [p \in 0..(F.periods - 1) |-> 0]],
      course_daily_lectures |-> [c \in 0..(F.courses - 1) |-> [d \in 0..(Days(F) - 1) |-> 0]],
      working_days |-> [c \in 0..(F.courses - 1) |-> 0],
      used_rooms |-> [c \in 0..(F.courses - 1) |-> << >>] ]

\* The Timetable dataclass: cls(faculty=..., timetable=..., warnings=..., caches)
MakeTimetable(F, grid, w, caches) ==
    [ faculty |-> F,
      warnings |-> w,
      timetable |-> grid,
      room_lectures |-> caches.room_lectures,
      curriculum_period_lectures |-> caches.curriculum_period_lectures,
      course_daily_lectures |-> caches.course_daily_lectures,
      working_days |-> caches.working_days,
      used_rooms |-> caches.used_rooms ]

NoTimetable == [none |-> TRUE]

IsTimetable(t) == "timetable" \in DOMAIN t

\* Timetable.from_faculty: empty grid, zeroed caches
FromFaculty(F) == MakeTimetable(F, ZeroGrid(F), 0, ZeroCaches(F))

\* Timetable.clone: the same grid, caches zeroed
Clone(t) == MakeTimetable(t.faculty, t.timetable, t.warnings, ZeroCaches(t.faculty))

RECURSIVE ScanUsedRooms(_, _, _, _)
\* "if room not in self.used_rooms[c]: self.used_rooms[c].append(room)", p ascending
ScanUsedRooms(row, used, p, T) ==
    IF p >= T THEN used
    ELSE With(IF row[p] # 0 /\ \A k \in 1..Len(used) : used[k] # row[p]
              THEN Append(used, row[p]) ELSE used, LAMBDA seen :
            ScanUsedRooms(row, seen, p + 1, T))

RECURSIVE ScanAllRooms(_, _, _, _)
ScanAllRooms(row, used, p, T) ==
    IF p >= T THEN used
    ELSE With(IF row[p] # 0 THEN Append(used, row[p]) ELSE used, LAMBDA seen :
            ScanAllRooms(row, seen, p + 1, T))

\* mutant: used_rooms[c].append(room) without the membership test
UsedRoomsNoTest(row, used, T) == ScanAllRooms(row, used, 0, T)

\* the list used_rooms[c] after the first loop of update_redundant_data
UsedRoomsAfter(row, used, T) == ScanUsedRooms(row, used, 0, T)

\* mutant: the first loop without "if room", so that the cells holding 0 are
\* counted in row 0 of room_lectures
UpdateRedundantDataNoSkip(t) ==
    LET F == t.faculty
        g_ == t.timetable
        Cs == 0..(F.courses - 1)
        Ps == 0..(F.periods - 1)
        ppd == F.periods_per_day
        cdl == [c \in Cs |-> [d \in 0..(Days(F) - 1) |->
                  t.course_daily_lectures[c][d]
                  + Cardinality({q \in 0..(ppd - 1) : g_[c][d * ppd + q] # 0})]]
    IN  [ t EXCEPT
          !.room_lectures = [r \in 0..F.rooms |-> [p \in Ps |->
              t.room_lectures[r][p] + Cardinality({c \in Cs : g_[c][p] = r})]],
          !.used_rooms = [c \in Cs |-> UsedRoomsAfter(g_[c], t.used_rooms[c], F.periods)],
          !.curriculum_period_lectures = [g \in 0..(F.curricula - 1) |-> [p \in Ps |->
              t.curriculum_period_lectures[g][p]
              + Cardinality({c \in Cs :
                    /\ \E k \in 1..Len(F.curricula_vect[g + 1].members) :
                          F.curricula_vect[g + 1].members[k] = F.course_vect[c + 1].name
                    /\ g_[c][p] # 0})]],
          !.course_daily_lectures = cdl,
          !.working_days = [c \in Cs |->
              t.working_days[c] + Cardinality({d \in 0..(Days(F) - 1) : cdl[c][d] > 0})] ]

\* Timetable.update_redundant_data: every counter is incremented from the
\* value the object already holds.
UpdateRedundantData(t) ==
    LET F == t.faculty
        g_ == t.timetable
        Cs == 0..(F.courses - 1)
        Ps == 0..(F.periods - 1)
        ppd == F.periods_per_day
        cdl == [c \in Cs |-> [d \in 0..(Days(F) - 1) |->
                  t.course_daily_lectures[c][d]
                  + Cardinality({q \in 0..(ppd - 1) : g_[c][d * ppd + q] # 0})]]
    IN  [ t EXCEPT
          !.room_lectures = [r \in 0..F.rooms |-> [p \in Ps |->
              IF r = 0 THEN t.room_lectures[r][p]
              ELSE t.room_lectures[r][p] + Cardinality({c \in Cs : g_[c][p] = r})]],
          !.used_rooms = [c \in Cs |-> UsedRoomsAfter(g_[c], t.used_rooms[c], F.periods)],
          !.curriculum_period_lectures = [g \in 0..(F.curricula - 1) |-> [p \in Ps |->
              t.curriculum_period_lectures[g][p]
              + Cardinality({c \in Cs :
                    /\ \E k \in 1..Len(F.curricula_vect[g + 1].members) :
                          F.curricula_vect[g + 1].members[k] = F.course_vect[c + 1].name
                    /\ g_[c][p] # 0})]],
          !.course_daily_lectures = cdl,
          !.working_days = [c \in Cs |->
              t.working_days[c] + Cardinality({d \in 0..(Days(F) - 1) : cdl[c][d] > 0})] ]

\* mutant: a repeated entry overwrites the cell
LoadLineOverwrite(F, st, ln) ==
    LET c == IndexOf(F.course_names, ln.course)
        r == IndexOf(F.room_names, ln.room)
        p == ln.day * F.periods_per_day + ln.period
        warn == [st EXCEPT !.warnings = st.warnings + 1]
    IN  IF c = -1 THEN warn
        ELSE IF r = -1 THEN warn
        ELSE IF ln.day > Days(F) THEN warn
        ELSE IF ln.period > F.periods_per_day THEN warn
        ELSE IF p >= F.periods THEN [st EXCEPT !.raised = TRUE]
        ELSE [st EXCEPT !.tt = SetCell(st.tt, c, p, r)]

\* A solution line is [course, room, day, period]; the loop state of
\* Timetable.from_stream is [tt, warnings, raised].
\* One pass of "for line in buffer".
LoadLine(F, st, ln) ==
    LET c == IndexOf(F.course_names, ln.course)
        r == IndexOf(F.room_names, ln.room)
        p == ln.day * F.periods_per_day + ln.period
        warn == [st EXCEPT !.warnings = st.warnings + 1]
    IN  IF c = -1 THEN warn
        ELSE IF r = -1 THEN warn
        ELSE IF ln.day > Days(F) THEN warn
        ELSE IF ln.period > F.periods_per_day THEN warn
        ELSE IF p >= F.periods THEN [st EXCEPT !.raised = TRUE]    \* IndexError
        ELSE IF st.tt[c][p] # 0 THEN warn
        ELSE [st EXCEPT !.tt = SetCell(st.tt, c, p, r)]

\* the tail of Timetable.from_stream: build the instance, refresh it
FinishLoad(F, st) ==
    UpdateRedundantData(MakeTimetable(F, st.tt, st.warnings, ZeroCaches(F)))

RECURSIVE FoldLines(_, _, _, _)
FoldLines(F, st, lines, k) ==
    IF k > Len(lines) \/ st.raised THEN st
    ELSE With(LoadLine(F, st, lines[k]), LAMBDA after : FoldLines(F, after, lines, k + 1))

LoadStart(F) == [tt |-> ZeroGrid(F), warnings |-> 0, raised |-> FALSE]

\* Timetable.from_stream(faculty, buffer) for a buffer that does not raise
FromStream(F, lines) == FinishLoad(F, FoldLines(F, LoadStart(F), lines, 1))

\* The dataclass-generated Timetable.__eq__: the tuples of all fields
TimetableEq(a, b) ==
    <<a.faculty, a.warnings, a.timetable, a.room_lectures, a.curriculum_period_lectures,
      a.course_daily_lectures, a.working_days, a.used_rooms>>
    = <<b.faculty, b.warnings, b.timetable, b.room_lectures, b.curriculum_period_lectures,
        b.course_daily_lectures, b.working_days, b.used_rooms>>

\* ------------------------------------------------ Validator (validator.py)
Lectures(F, c) == F.course_vect[c + 1].lectures

RowLectures(F, t, c) == Cardinality({p \in 0..(F.periods - 1) : t.timetable[c][p] # 0})

costs_on_lectures(F, t) ==
    LET k == [c \in 0..(F.courses - 1) |->
                 IF RowLectures(F, t, c) < Lectures(F, c)
                 THEN Lectures(F, c) - RowLectures(F, t, c)
                 ELSE IF RowLectures(F, t, c) > Lectures(F, c)
                 THEN RowLectures(F, t, c) - Lectures(F, c)
                 ELSE 0]
    IN  SumOver(k, DOMAIN k)

\* mutant: the inner loop over every other course, "for c2 in range(courses)"
costs_on_conflicts_ordered(F, t) ==
    Cardinality({ q \in (0..(F.courses - 1)) \X (0..(F.courses - 1)) \X (0..(F.periods - 1)) :
                    /\ q[2] # q[1]
                    /\ F.conflict[q[1]][q[2]]
                    /\ t.timetable[q[1]][q[3]] # 0
                    /\ t.timetable[q[2]][q[3]] # 0 })

costs_on_conflicts(F, t) ==
    Cardinality({ q \in (0..(F.courses - 1)) \X (0..(F.courses - 1)) \X (0..(F.periods - 1)) :
                    /\ q[2] >= q[1] + 1
                    /\ F.conflict[q[1]][q[2]]
                    /\ t.timetable[q[1]][q[3]] # 0
                    /\ t.timetable[q[2]][q[3]] # 0 })

costs_on_availability(F, t) ==
    Cardinality({ q \in (0..(F.courses - 1)) \X (0..(F.periods - 1)) :
                    t.timetable[q[1]][q[2]] # 0 /\ ~F.availability[q[1]][q[2]] })

costs_on_room_occupation(F, t) ==
    LET k == [q \in (0..(F.periods - 1)) \X (0..F.rooms) |->
                 IF t.room_lectures[q[2]][q[1]] > 1
                 THEN t.room_lectures[q[2]][q[1]] - 1 ELSE 0]
    IN  SumOver(k, DOMAIN k)

costs_on_room_capacity(F, t) ==
    LET k == [q \in (0..(F.courses - 1)) \X (0..(F.periods - 1)) |->
                 LET r == t.timetable[q[1]][q[2]]
                 IN  IF r # 0 /\ F.room_vect[r].capacity < F.course_vect[q[1] + 1].students
                     THEN F.course_vect[q[1] + 1].students - F.room_vect[r].capacity
                     ELSE 0]
    IN  SumOver(k, DOMAIN k)

costs_on_min_working_days(F, t) ==
    LET k == [c \in 0..(F.courses - 1) |->
                 IF t.working_days[c] < F.course_vect[c + 1].min_working_days
                 THEN F.course_vect[c + 1].min_working_days - t.working_days[c]
                 ELSE 0]
    IN  SumOver(k, DOMAIN k)

\* The cells of curriculum_period_lectures[g] that the pass for period p reads
\* beside [g][p] itself; p - 1 = -1 is Python's last element.
CompactnessNeighbours(F, p) ==
    LET ppd == F.periods_per_day
    IN  IF p % ppd = 0 THEN {p + 1}
        ELSE IF (p + 1) % ppd = 0 THEN {p - 1}
        ELSE {p + 1, p - 1}

\* costs_on_curriculum_compactness raises IndexError when it reads past the row
CompactnessRaises(F, t) ==
    \E g \in 0..(F.curricula - 1), p \in 0..(F.periods - 1) :
        /\ t.curriculum_period_lectures[g][p] # 0
        /\ \E n \in CompactnessNeighbours(F, p) : n >= F.periods

costs_on_curriculum_compactness(F, t) ==
    LET cpl == t.curriculum_period_lectures
        k == [q \in (0..(F.curricula - 1)) \X (0..(F.periods - 1)) |->
                 IF cpl[q[1]][q[2]] = 0 THEN 0
                 ELSE IF \A n \in CompactnessNeighbours(F, q[2]) :
                            n \in 0..(F.periods - 1) /\ cpl[q[1]][n] = 0
                 THEN cpl[q[1]][q[2]]
                 ELSE 0]
    IN  SumOver(k, DOMAIN k)

costs_on_room_stability(F, t) ==
    LET k == [c \in 0..(F.courses - 1) |->
                 IF Len(t.used_rooms[c]) > 1 THEN Len(t.used_rooms[c]) - 1 ELSE 0]
    IN  SumOver(k, DOMAIN k)

MIN_WORKING_DAYS_COST == 5
CURRICULUM_COMPACTNESS_COST == 2
ROOM_STABILITY_COST == 1

\* print_total_cost: "violations", the sum printed after "Violations = "
SummaryViolations(F, t) ==
    costs_on_lectures(F, t) + costs_on_conflicts(F, t)
    + costs_on_availability(F, t) + costs_on_room_occupation(F, t)

\* mutant: the soft sum with the weights of min working days and compactness swapped
SummaryCostsSwapped(F, t) ==
    costs_on_room_capacity(F, t)
    + costs_on_min_working_days(F, t) * CURRICULUM_COMPACTNESS_COST
    + costs_on_curriculum_compactness(F, t) * MIN_WORKING_DAYS_COST
    + costs_on_room_stability(F, t) * ROOM_STABILITY_COST

\* print_total_cost: "costs", the sum printed after "Total Cost = "
SummaryCosts(F, t) ==
    costs_on_room_capacity(F, t)
    + costs_on_min_working_days(F, t) * MIN_WORKING_DAYS_COST
    + costs_on_curriculum_compactness(F, t) * CURRICULUM_COMPACTNESS_COST
    + costs_on_room_stability(F, t) * ROOM_STABILITY_COST

\* Validator.total_violation_cost (read by Solver.evaluate and the test):
\* T1 + T2 + T3 + T4
total_violation_cost(F, t) ==
    costs_on_lectures(F, t) + costs_on_conflicts(F, t)
    + costs_on_availability(F, t) + costs_on_room_occupation(F, t)

\* Validator.total_soft_cost: T5 + T6*5 + T7*2 + T8*1
total_soft_cost(F, t) ==
    costs_on_room_capacity(F, t) + costs_on_min_working_days(F, t) * 5
    + costs_on_curriculum_compactness(F, t) * 2 + costs_on_room_stability(F, t) * 1

\* ------------------------------------------------------ random (solver.py)
\* The generator of module random is a deterministic function of its seed.
\* It is modelled by a linear congruential generator over 0..65536: its state
\* is one number, every draw advances it once.

\* random.seed(x)
Seed(x) == (x * 31 + 7) % 65537

RngStep(s) == (s * 75 + 74) % 65537

\* random.randrange(n) for n > 0: the value drawn and the generator after it
RandBelow(s, n) == [v |-> RngStep(s) % n, s |-> RngStep(s)]

\* random.randrange(sys.maxsize): an inner seed
RandSeed(s) == [v |-> RngStep(s), s |-> RngStep(s)]

\* random.random() < 0.01
RandNoise(s) == [v |-> (RngStep(s) % 100) < 1, s |-> RngStep(s)]

RECURSIVE SortedSeq(_)
\* tuple(a set of small ints): its elements in ascending order
SortedSeq(S) ==
    IF S = {} THEN << >>
    ELSE With(SetMin(S), LAMBDA least :
         With(S \ {least}, LAMBDA rest : <<least>> \o SortedSeq(rest)))

\* random.choice(tuple(S)); raised stands for the IndexError of an empty tuple
Choice(s, S) ==
    IF S = {} THEN [raised |-> TRUE, v |-> -1, s |-> s]
    ELSE With(RandBelow(s, Cardinality(S)), LAMBDA d :
            [raised |-> FALSE, v |-> SortedSeq(S)[d.v + 1], s |-> d.s])

\* ---------------------------------------------------- Mutation (solver.py)
\* class Mutation(Enum): a member is its value, so two names given the same
\* value are one member.
Mutation ==
    [ change_room |-> "change_room",
      change_period |-> "change_period",
      change_both |-> "change_period",
      swap_room |-> "swap_room",
      swap_period |-> "swap_period",
      swap_both |-> "swap_period" ]

\* A dict display is a sequence of <<key, value>> items: the keys keep the
\* order of their first insertion, a repeated key keeps its last value.
RECURSIVE DictKeys(_)
DictKeys(items) ==
    IF items = << >> THEN << >>
    ELSE With(DictKeys(SubSeq(items, 1, Len(items) - 1)), LAMBDA front :
         With(items[Len(items)][1], LAMBDA k :
            IF \E i \in 1..Len(front) : front[i] = k THEN front ELSE Append(front, k)))

DictGet(items, k) ==
    items[CHOOSE i \in 1..Len(items) :
            items[i][1] = k /\ \A j \in (i + 1)..Len(items) : items[j][1] # k][2]

mutation_count_chances == << <<1, 1>> >>

mutation_chances ==
    << <<Mutation.change_room, 4>>,
       <<Mutation.change_period, 4>>,
       <<Mutation.change_both, 2>>,
       <<Mutation.swap_room, 2>>,
       <<Mutation.swap_period, 2>>,
       <<Mutation.swap_both, 1>> >>

\* the dict "mutate" of Solver.iterate
mutate ==
    << <<Mutation.change_room, "mutate_change_room">>,
       <<Mutation.change_period, "mutate_change_period">>,
       <<Mutation.change_both, "mutate_change_both">>,
       <<Mutation.swap_room, "mutate_swap_room">>,
       <<Mutation.swap_period, "mutate_swap_period">>,
       <<Mutation.swap_both, "mutate_swap_both">> >>

RECURSIVE Repeat(_, _)
Repeat(x, n) == IF n <= 0 THEN << >> ELSE <<x>> \o Repeat(x, n - 1)

RECURSIVE OptionList(_, _, _)
\* [count for count, chances in option_chances.items() for _ in range(chances)]
OptionList(items, keys, k) ==
    IF k > Len(keys) THEN << >>
    ELSE Repeat(keys[k], DictGet(items, keys[k])) \o OptionList(items, keys, k + 1)

\* get_random_option(option_chances)
get_random_option(items, s) ==
    With(DictKeys(items), LAMBDA keys :
    With(OptionList(items, keys, 1), LAMBDA options :
    With(RandBelow(s, Len(options)), LAMBDA d :
        [v |-> options[d.v + 1], s |-> d.s])))

\* ------------------------------------------------------ Solver (solver.py)
\* The mutation helpers work on the grid g of the cloned timetable and thread
\* the generator s; raised stands for an exception leaving the function.

\* pick_course_period_room; bad_course = -1 is None
pick_course_period_room(F, g, s, bad_course) ==
    With(Choice(s, (0..(F.courses - 1)) \ {bad_course}), LAMBDA course :
    With(IF course.raised THEN 0 ELSE Lectures(F, course.v), LAMBDA L :
    With(IF L > 0 THEN RandBelow(course.s, L) ELSE [v |-> 0, s |-> course.s], LAMBDA di :
    With(IF course.raised THEN << >>
         ELSE SortedSeq({p \in 0..(F.periods - 1) : g[course.v][p] # 0}), LAMBDA occupied :
        IF course.raised \/ L <= 0 \/ di.v + 1 > Len(occupied)
        THEN [raised |-> TRUE, c |-> -1, p |-> -1, room |-> 0, s |-> di.s]
        ELSE [raised |-> FALSE, c |-> course.v, p |-> occupied[di.v + 1],
              room |-> g[course.v][occupied[di.v + 1]], s |-> di.s]))))

\* "for conflict_course in self.faculty.conflict[c]": the rows of the grid the
\* loop reads.  conflict[c] is a list of booleans, and a boolean indexes a list
\* as 0 or 1.
ConflictRows(F, c) == {IF F.conflict[c][k] THEN 1 ELSE 0 : k \in 0..(F.courses - 1)}

\* the four period sets of get_free_period; from_p = -1 is None
FreePeriodStages(F, g, c, from_p) ==
    LET same == {p \in 0..(F.periods - 1) : g[c][p] = 0}
        from == same \ {from_p}
        available == {p \in from : F.availability[c][p]}
        conflict_ == {p \in available : \A row \in ConflictRows(F, c) : g[row][p] = 0}
    IN  [same_possible_periods |-> same, from_possible_periods |-> from,
         available_periods |-> available, conflict_periods |-> conflict_]

\* get_free_period reads a row the grid does not have (IndexError)
FreePeriodRaises(F, g, c, from_p) ==
    /\ FreePeriodStages(F, g, c, from_p).available_periods # {}
    /\ \E row \in ConflictRows(F, c) : row > F.courses - 1

get_free_period(F, g, s, c, from_p) ==
    With(FreePeriodStages(F, g, c, from_p), LAMBDA st :
        IF FreePeriodRaises(F, g, c, from_p) THEN [raised |-> TRUE, v |-> -1, s |-> s]
        ELSE IF Cardinality(st.conflict_periods) < 2 THEN Choice(s, st.available_periods)
        ELSE Choice(s, st.conflict_periods))

\* get_free_room; from_r = 0 is None (no room is 0)
get_free_room(F, s, from_r) == Choice(s, (1..F.rooms) \ {from_r})

Failed(s) == [raised |-> TRUE, g |-> << >>, s |-> s]

mutate_change_room(F, g, s) ==
    With(pick_course_period_room(F, g, s, -1), LAMBDA k :
        IF k.raised THEN Failed(k.s)
        ELSE With(get_free_room(F, k.s, k.room), LAMBDA nr :
            IF nr.raised THEN Failed(nr.s)
            ELSE [raised |-> FALSE, g |-> SetCell(g, k.c, k.p, nr.v), s |-> nr.s]))

mutate_change_period(F, g, s) ==
    With(pick_course_period_room(F, g, s, -1), LAMBDA k :
        IF k.raised THEN Failed(k.s)
        ELSE With(get_free_period(F, g, k.s, k.c, k.p), LAMBDA np :
            IF np.raised THEN Failed(np.s)
            ELSE [raised |-> FALSE,
                  g |-> SetCell(SetCell(g, k.c, np.v, g[k.c][k.p]), k.c, k.p, 0),
                  s |-> np.s]))

\* mutant: the old cell is not cleared, "timetable.timetable[c][p] = 0" left out
mutate_change_both_keep(F, g, s) ==
    With(pick_course_period_room(F, g, s, -1), LAMBDA k :
        IF k.raised THEN Failed(k.s)
        ELSE With(get_free_period(F, g, k.s, k.c, k.p), LAMBDA np :
            IF np.raised THEN Failed(np.s)
            ELSE With(get_free_room(F, np.s, k.room), LAMBDA nr :
                IF nr.raised THEN Failed(nr.s)
                ELSE [raised |-> FALSE,
                      g |-> SetCell(g, k.c, np.v, nr.v),
                      s |-> nr.s])))

mutate_change_both(F, g, s) ==
    With(pick_course_period_room(F, g, s, -1), LAMBDA k :
        IF k.raised THEN Failed(k.s)
        ELSE With(get_free_period(F, g, k.s, k.c, k.p), LAMBDA np :
            IF np.raised THEN Failed(np.s)
            ELSE With(get_free_room(F, np.s, k.room), LAMBDA nr :
                IF nr.raised THEN Failed(nr.s)
                ELSE [raised |-> FALSE,
                      g |-> SetCell(SetCell(g, k.c, np.v, nr.v), k.c, k.p, 0),
                      s |-> nr.s])))

mutate_swap_room(F, g, s) ==
    With(pick_course_period_room(F, g, s, -1), LAMBDA a :
        IF a.raised THEN Failed(a.s)
        ELSE With(pick_course_period_room(F, g, a.s, a.c), LAMBDA b :
            IF b.raised THEN Failed(b.s)
            ELSE [raised |-> FALSE,
                  g |-> SetCell(SetCell(g, a.c, a.p, b.room), b.c, b.p, a.room),
                  s |-> b.s]))

mutate_swap_period(F, g, s) ==
    With(pick_course_period_room(F, g, s, -1), LAMBDA a :
        IF a.raised THEN Failed(a.s)
        ELSE With(pick_course_period_room(F, g, a.s, a.c), LAMBDA b :
            IF b.raised THEN Failed(b.s)
            ELSE IF g[a.c][b.p] # 0 \/ g[b.c][a.p] # 0
            THEN [raised |-> FALSE, g |-> g, s |-> b.s]
            ELSE [raised |-> FALSE,
                  g |-> SetCell(SetCell(SetCell(SetCell(g, a.c, a.p, 0), a.c, b.p, a.room),
                                b.c, b.p, 0), b.c, a.p, b.room),
                  s |-> b.s]))

mutate_swap_both(F, g, s) ==
    With(pick_course_period_room(F, g, s, -1), LAMBDA a :
        IF a.raised THEN Failed(a.s)
        ELSE With(pick_course_period_room(F, g, a.s, a.c), LAMBDA b :
            IF b.raised THEN Failed(b.s)
            ELSE IF g[a.c][b.p] # 0 \/ g[b.c][a.p] # 0
            THEN [raised |-> FALSE, g |-> g, s |-> b.s]
            ELSE [raised |-> FALSE,
                  g |-> SetCell(SetCell(SetCell(SetCell(g, a.c, a.p, 0), a.c, b.p, b.room),
                                b.c, b.p, 0), b.c, a.p, a.room),
                  s |-> b.s]))

\* mutate[mutation](timetable)
ApplyMutation(F, g, s, mutation) ==
    LET fn == DictGet(mutate, mutation)
    IN  CASE fn = "mutate_change_room" -> mutate_change_room(F, g, s)
          [] fn = "mutate_change_period" -> mutate_change_period(F, g, s)
          [] fn = "mutate_change_both" -> mutate_change_both(F, g, s)
          [] fn = "mutate_swap_room" -> mutate_swap_room(F, g, s)
          [] fn = "mutate_swap_period" -> mutate_swap_period(F, g, s)
          [] fn = "mutate_swap_both" -> mutate_swap_both(F, g, s)

RECURSIVE ApplyMutations(_, _, _, _)
\* "for _ in range(mutations_count)"
ApplyMutations(F, g, s, n) ==
    IF n <= 0 THEN [raised |-> FALSE, g |-> g, s |-> s]
    ELSE With(get_random_option(mutation_chances, s), LAMBDA pick :
         With(ApplyMutation(F, g, pick.s, pick.v), LAMBDA res :
            IF res.raised THEN res ELSE ApplyMutations(F, res.g, res.s, n - 1)))

\* Solver.iterate: the candidate and the generator after it
iterate(t, s) ==
    With(Clone(t), LAMBDA cl :
    With(get_random_option(mutation_count_chances, s), LAMBDA cnt :
    With(ApplyMutations(t.faculty, cl.timetable, cnt.s, cnt.v), LAMBDA res :
        IF res.raised THEN [raised |-> TRUE, t |-> NoTimetable, s |-> res.s]
        ELSE [raised |-> FALSE,
              t |-> UpdateRedundantData([cl EXCEPT !.timetable = res.g]),
              s |-> res.s])))

\* Faculty.course_conflict_weights[c]: the number of courses in conflict with c
course_conflict_weights(F, c) == Cardinality({k \in 0..(F.courses - 1) : F.conflict[c][k]})

RECURSIVE SortByWeight(_, _)
\* courses.sort(key=lambda c: -course_conflict_weights[c]) of a set of
\* indices taken in ascending order (the sort is stable)
SortByWeight(F, S) ==
    IF S = {} THEN << >>
    ELSE With(CHOOSE c \in S : \A k \in S :
                    \/ course_conflict_weights(F, c) > course_conflict_weights(F, k)
                    \/ (course_conflict_weights(F, c) = course_conflict_weights(F, k) /\ c <= k),
              LAMBDA best :
         With(S \ {best}, LAMBDA rest : <<best>> \o SortByWeight(F, rest)))

RECURSIVE LectureSlots(_, _, _)
\* the course of every pass of the two nested loops of init, in order
LectureSlots(F, order, k) ==
    IF k > Len(order) THEN << >>
    ELSE Repeat(order[k], Lectures(F, order[k])) \o LectureSlots(F, order, k + 1)

RECURSIVE PlaceLectures(_, _, _, _, _)
PlaceLectures(F, g, s, slots, k) ==
    IF k > Len(slots) THEN [raised |-> FALSE, g |-> g, s |-> s]
    ELSE With(get_free_period(F, g, s, slots[k], -1), LAMBDA p :
            IF p.raised THEN Failed(p.s)
            ELSE With(get_free_room(F, p.s, 0), LAMBDA room :
                IF room.raised THEN Failed(room.s)
                ELSE With(SetCell(g, slots[k], p.v, room.v), LAMBDA placed :
                    PlaceLectures(F, placed, room.s, slots, k + 1))))

\* Solver.init
init(F, sort_courses, s) ==
    With(IF sort_courses THEN SortByWeight(F, 0..(F.courses - 1))
         ELSE SortedSeq(0..(F.courses - 1)), LAMBDA order :
    With(LectureSlots(F, order, 1), LAMBDA slots :
    With(PlaceLectures(F, ZeroGrid(F), s, slots, 1), LAMBDA res :
        IF res.raised THEN [raised |-> TRUE, t |-> NoTimetable, s |-> res.s]
        ELSE [raised |-> FALSE,
              t |-> UpdateRedundantData([FromFaculty(F) EXCEPT !.timetable = res.g]),
              s |-> res.s])))

\* Solver.evaluate
evaluate(F, violation_cost, t) ==
    total_violation_cost(F, t) * violation_cost + total_soft_cost(F, t)

\* mutant: no noise, a candidate is accepted only when the cost falls
should_accept_no_noise(old_cost, new_cost, s) ==
    [v |-> new_cost < old_cost, s |-> IF new_cost < old_cost THEN s ELSE RngStep(s)]

\* mutant: a candidate of equal cost is accepted as well
should_accept_or_equal(old_cost, new_cost, s) ==
    IF new_cost <= old_cost THEN [v |-> TRUE, s |-> s] ELSE RandNoise(s)

\* Solver.should_accept: the draw is made only when the cost did not fall
should_accept(old_cost, new_cost, s) ==
    IF new_cost < old_cost THEN [v |-> TRUE, s |-> s] ELSE RandNoise(s)

\* make_solver: the default violation_cost
DefaultViolationCost(F) ==
    SumOver([c \in 0..(F.courses - 1) |-> Lectures(F, c)], 0..(F.courses - 1)) * 100

\* ------------------------------------------------- Solver.shot (solver.py)
\* the size of the worker pool (timetable.settings)
MAX_WORKERS == 2

\* A task of the pool: the arguments of Solver.shot (cost = -1 is None), its
\* locals once it runs, and where it is: "pending", "running", "returned",
\* "raised".
NewTask(cost, timetable, seed) ==
    [ cost |-> cost, timetable |-> timetable, seed |-> seed, s |-> 0,
      i |-> 0, approves |-> 0, rejects |-> 0,
      new_timetable |-> NoTimetable, new_cost |-> -1, state |-> "pending" ]

\* Solver.shot up to its loop: seed, init, evaluate
ShotEnter(c, task) ==
    With(IF IsTimetable(task.timetable)
         THEN [raised |-> FALSE, t |-> task.timetable, s |-> Seed(task.seed)]
         ELSE init(c.faculty, c.sort_courses, Seed(task.seed)), LAMBDA made :
        IF made.raised THEN [task EXCEPT !.state = "raised", !.s = made.s]
        ELSE [task EXCEPT
                !.state = "running",
                !.s = made.s,
                !.timetable = made.t,
                !.cost = IF task.cost = -1
                         THEN evaluate(c.faculty, c.violation_cost, made.t)
                         ELSE task.cost])

\* mutant: the break test lets one more rejected iterate through
ShotLoopsLate(c, task) ==
    task.i < c.iterations /\ ~(task.rejects > c.max_consecutive_rejects + 1)

\* the loop of Solver.shot goes on
ShotLoops(c, task) == task.i < c.iterations /\ ~(task.rejects > c.max_consecutive_rejects)

\* mutant: an accepted candidate replaces the timetable and not the cost
ShotBodyKeepCost(c, task) ==
    With(iterate(task.timetable, task.s), LAMBDA it :
        IF it.raised THEN [task EXCEPT !.state = "raised", !.s = it.s]
        ELSE
    With(IF TimetableEq(it.t, task.timetable) THEN task.cost
         ELSE evaluate(c.faculty, c.violation_cost, it.t), LAMBDA new_cost :
    With(should_accept(task.cost, new_cost, it.s), LAMBDA acc :
        IF acc.v
        THEN [task EXCEPT !.i = task.i + 1, !.s = acc.s,
                          !.new_timetable = it.t, !.new_cost = new_cost,
                          !.rejects = 0, !.approves = task.approves + 1,
                          !.timetable = it.t]
        ELSE [task EXCEPT !.i = task.i + 1, !.s = acc.s,
                          !.new_timetable = it.t, !.new_cost = new_cost,
                          !.rejects = task.rejects + 1])))

\* one pass of the loop of Solver.shot
ShotBody(c, task) ==
    With(iterate(task.timetable, task.s), LAMBDA it :
        IF it.raised THEN [task EXCEPT !.state = "raised", !.s = it.s]
        ELSE
    With(IF TimetableEq(it.t, task.timetable) THEN task.cost
         ELSE evaluate(c.faculty, c.violation_cost, it.t), LAMBDA new_cost :
    With(should_accept(task.cost, new_cost, it.s), LAMBDA acc :
        IF acc.v
        THEN [task EXCEPT !.i = task.i + 1, !.s = acc.s,
                          !.new_timetable = it.t, !.new_cost = new_cost,
                          !.rejects = 0, !.approves = task.approves + 1,
                          !.cost = new_cost, !.timetable = it.t]
        ELSE [task EXCEPT !.i = task.i + 1, !.s = acc.s,
                          !.new_timetable = it.t, !.new_cost = new_cost,
                          !.rejects = task.rejects + 1])))

\* ----------------------------------------- Solver.do_the_thing (solver.py)
\* mutant: the product rounded up
TopCeiling(n, ratio) == (n * ratio[1] + ratio[2] - 1) \div ratio[2]

\* int(len(timetables) * slice_ratio), the ratio being <<numerator, denominator>>
Top(n, ratio) == (n * ratio[1]) \div ratio[2]

\* the first element of least cost: min(timetables, key=itemgetter(0))
FirstMin(tts) ==
    tts[CHOOSE i \in 1..Len(tts) :
          /\ \A j \in 1..Len(tts) : tts[i].cost <= tts[j].cost
          /\ \A j \in 1..(i - 1) : tts[j].cost > tts[i].cost]

RECURSIVE NSmallest(_, _)
\* nsmallest(top, timetables, key=itemgetter(0)): ascending cost, ties in list order
NSmallest(n, tts) ==
    IF n <= 0 \/ tts = << >> THEN << >>
    ELSE With(CHOOSE k \in 1..Len(tts) :
                    /\ \A j \in 1..Len(tts) : tts[k].cost <= tts[j].cost
                    /\ \A j \in 1..(k - 1) : tts[j].cost > tts[k].cost, LAMBDA i :
         With(SubSeq(tts, 1, i - 1) \o SubSeq(tts, i + 1, Len(tts)), LAMBDA rest :
            <<tts[i]>> \o NSmallest(n - 1, rest)))

\* list(islice(cycle(timetables), shots))
CycleTo(tts, n) == [i \in 1..n |-> tts[((i - 1) % Len(tts)) + 1]]

\* mutant: the first `top` results in slot order, whatever they cost
SlicedFirst(c, tts) ==
    LET kept == SubSeq(tts, 1, Top(Len(tts), c.slice_ratio))
    IN  IF c.repeat_sliced_results THEN CycleTo(kept, c.shots) ELSE kept

\* the slice step of do_the_thing: the list handed to shot_timetables
Sliced(c, tts) ==
    LET kept == NSmallest(Top(Len(tts), c.slice_ratio), tts)
    IN  IF c.repeat_sliced_results THEN CycleTo(kept, c.shots) ELSE kept

RECURSIVE InnerSeeds(_, _)
\* the first n inner seeds of the generator expression and the master
\* generator after them
InnerSeeds(m, n) ==
    IF n <= 0 THEN [seeds |-> << >>, s |-> m]
    ELSE With(RandSeed(m), LAMBDA d :
         With(InnerSeeds(d.s, n - 1), LAMBDA rest :
            [seeds |-> <<d.v>> \o rest.seeds, s |-> rest.s]))

\* executor.map(self.shot, costs, timetables, seeds): the tasks submitted,
\* as many as the shortest argument list
Submitted(c, tts, m) ==
    With(InnerSeeds(m, Min2(Len(tts), c.shots)), LAMBDA sd :
        [tasks |-> [i \in 1..Len(sd.seeds) |->
                        NewTask(tts[i].cost, tts[i].timetable, sd.seeds[i])],
         s |-> sd.s])

\* mutant: the results in the order the shots completed
ResultsAsCompleted(tks, done) ==
    [i \in 1..Len(tks) |-> [cost |-> tks[done[i]].cost, timetable |-> tks[done[i]].timetable]]

\* list(executor.map(...)): results[i] is the result of task i
Results(tks, done) ==
    [i \in 1..Len(tks) |-> [cost |-> tks[i].cost, timetable |-> tks[i].timetable]]

\* ------------------------------------------------------------ the instance
\* The faculty the timetables below belong to, as Faculty.from_stream builds it.
ToyInput ==
    [ name |-> "Toy",
      courses |-> << [name |-> "c0", teacher |-> "t0", students |-> 30,
                       lectures |-> 2, min_working_days |-> 2],
                     [name |-> "c1", teacher |-> "t1", students |-> 20,
                       lectures |-> 1, min_working_days |-> 1] >>,
      rooms |-> << [name |-> "rA", capacity |-> 25], [name |-> "rB", capacity |-> 40] >>,
      days |-> 2,
      periods_per_day |-> 2,
      curricula |-> << [name |-> "q0", members |-> <<"c0", "c1">>] >>,
      constraints |-> << [course |-> "c0", day |-> 0, period |-> 0] >> ]

Toy == FacultyFromStream(ToyInput)

\* The solution lines a stream may hold: every known course and room with
\* days and timeslots up to and including the faculty's D and P, and lines
\* with an unknown course or an unknown room, in and out of range.
SolutionLines(F) ==
    [ course : {F.course_names[i] : i \in 1..Len(F.course_names)},
      room : {F.room_names[i] : i \in 2..Len(F.room_names)},
      day : 0..Days(F),
      period : 0..F.periods_per_day ]
    \cup [ course : {"zz"}, room : {F.room_names[2]}, day : {0, Days(F)}, period : {0} ]
    \cup [ course : {F.course_names[1]}, room : {"zz"}, day : {0, Days(F)}, period : {0} ]

\* ------------------------------------------------------------------- state
VARIABLES
    \* Faculty.from_stream
    fpc,              \* the section being read: "header", "curricula", "constraints", "built", "raised"
    fheader,          \* the header's counts of curricula and constraints
    course_vect,
    curricula_vect,
    availability,
    conflict,
    \* Timetable.from_stream and the object it returns
    lpc,              \* "reading", "done", "raised"
    consumed,         \* the lines read from the buffer so far
    tt,
    warnings,
    instance,
    refreshes,        \* calls of update_redundant_data made on instance after the load
    \* two Timetable objects compared with ==
    left,
    right,
    \* Solver.do_the_thing and its pool
    cfg,              \* the Solver's fields and the init_timetable argument
    pc,               \* "start", "dispatch", "join", "slice", "done", "raised"
    master,           \* the generator of the coordinating process
    slice_no,         \* passes of "for _ in range(self.slices)" begun
    rounds,           \* calls of shot_timetables made
    timetables,       \* the list "timetables": records [cost, timetable]
    tasks,            \* the tasks of the current round, in slot order
    finished,         \* the slots of the current round in their order of completion
    result,           \* the pair do_the_thing returns
    seen_costs,       \* history: the cost of every result any shot returned
    \* one call of a function of the solver or the validator
    call,             \* the function called and its arguments
    ret               \* what the call returned or raised; NoReturn before it ran

fvars == <<fpc, fheader, course_vect, curricula_vect, availability, conflict>>
lvars == <<lpc, consumed, tt, warnings, instance, refreshes>>
evars == <<left, right>>
svars == <<cfg, pc, master, slice_no, rounds, timetables, tasks, finished, result, seen_costs>>
cvars == <<call, ret>>
vars == <<fvars, lvars, evars, svars, cvars>>

FacultyIdle ==
    /\ fpc = "idle"
    /\ fheader = [curricula |-> 0, constraints |-> 0]
    /\ course_vect = << >>
    /\ curricula_vect = << >>
    /\ availability = << >>
    /\ conflict = << >>

LoadIdle ==
    /\ lpc = "idle"
    /\ consumed = << >>
    /\ tt = << >>
    /\ warnings = 0
    /\ instance = NoTimetable
    /\ refreshes = 0

EqIdle ==
    /\ left = NoTimetable
    /\ right = NoTimetable

NoResult == [cost |-> -1, timetable |-> NoTimetable]

NoReturn == [none |-> TRUE]

CallIdle ==
    /\ call = [fn |-> "none"]
    /\ ret = NoReturn

SolverIdle ==
    /\ cfg = [none |-> TRUE]
    /\ pc = "idle"
    /\ master = 0
    /\ slice_no = 0
    /\ rounds = 0
    /\ timetables = << >>
    /\ tasks = << >>
    /\ finished = << >>
    /\ result = NoResult
    /\ seen_costs = {}

\* --------------------------------------------------- Faculty.from_stream
FacultyCourses == <<"c0", "c1", "c2">>
Teachers == {"t0", "t1"}
FacultyDays == 2
FacultyPeriodsPerDay == 2

\* the member lists a CURRICULA line may carry
MemberLists ==
    UNION { [1..n -> {FacultyCourses[i] : i \in 1..Len(FacultyCourses)} \cup {"zz"}] :
              n \in 0..MaxMembers }

FacultyInit ==
    /\ fpc = "header"
    /\ fheader = [curricula |-> 0, constraints |-> 0]
    /\ course_vect = << >>
    /\ curricula_vect = << >>
    /\ availability = << >>
    /\ conflict = << >>

\* the header scalars and the COURSES section (ROOMS holds nothing conflict reads)
ReadHeaderAndCourses ==
    /\ fpc = "header"
    /\ \E teacher \in [1..Len(FacultyCourses) -> Teachers],
          ncur \in 0..MaxCurricula, ncon \in 0..MaxConstraints :
          /\ fheader' = [curricula |-> ncur, constraints |-> ncon]
          /\ course_vect' = [i \in 1..Len(FacultyCourses) |->
                               [name |-> FacultyCourses[i], teacher |-> teacher[i],
                                students |-> 1, lectures |-> 1, min_working_days |-> 1]]
    /\ availability' = AllAvailable(Len(FacultyCourses), FacultyDays * FacultyPeriodsPerDay)
    /\ conflict' = NoConflict(Len(FacultyCourses))
    /\ fpc' = "curricula"
    /\ UNCHANGED <<curricula_vect, lvars, evars, svars, cvars>>

\* one pass of "for i in range(curricula)"
ReadCurriculum ==
    /\ fpc = "curricula"
    /\ Len(curricula_vect) < fheader.curricula
    /\ \E members \in MemberLists :
          LET res == AddCurriculum(conflict, CourseNamesOf(course_vect), members)
          IN  /\ conflict' = res.conflict
              /\ fpc' = IF res.ok THEN "curricula" ELSE "raised"
              /\ curricula_vect' =
                    IF res.ok THEN Append(curricula_vect, [name |-> "q", members |-> members])
                    ELSE curricula_vect
    /\ UNCHANGED <<fheader, course_vect, availability, lvars, evars, svars, cvars>>

EndCurricula ==
    /\ fpc = "curricula"
    /\ Len(curricula_vect) = fheader.curricula
    /\ fpc' = "constraints"
    /\ UNCHANGED <<fheader, course_vect, curricula_vect, availability, conflict, lvars, evars, svars, cvars>>

\* "for i in range(constraints)": all its lines
ReadConstraints ==
    /\ fpc = "constraints"
    /\ \E cons \in [1..fheader.constraints ->
                      [course : {FacultyCourses[i] : i \in 1..Len(FacultyCourses)} \cup {"zz"},
                       day : 0..FacultyDays, period : 0..(FacultyPeriodsPerDay - 1)]] :
          LET names == CourseNamesOf(course_vect)
              bad == \E k \in 1..Len(cons) :
                        ~AddConstraint(availability, names, FacultyPeriodsPerDay,
                                       cons[k].course, cons[k].day, cons[k].period).ok
          IN  /\ availability' =
                    IF bad THEN availability
                    ELSE FoldConstraints(availability, names, FacultyPeriodsPerDay, cons, 1)
              /\ fpc' = IF bad THEN "raised" ELSE "teachers"
    /\ UNCHANGED <<fheader, course_vect, curricula_vect, conflict, lvars, evars, svars, cvars>>

\* the same-teacher loop and the construction of the instance
BuildFaculty ==
    /\ fpc = "teachers"
    /\ conflict' = AddTeacherConstraints(conflict, course_vect)
    /\ fpc' = "built"
    /\ UNCHANGED <<fheader, course_vect, curricula_vect, availability, lvars, evars, svars, cvars>>

FacultyNext ==
    \/ ReadHeaderAndCourses
    \/ ReadCurriculum
    \/ EndCurricula
    \/ ReadConstraints
    \/ BuildFaculty

InitFaculty == FacultyInit /\ LoadIdle /\ EqIdle /\ SolverIdle /\ CallIdle

SpecFaculty == InitFaculty /\ [][FacultyNext]_vars

\* ------------------------------------------------- Timetable.from_stream
LoadInit ==
    /\ lpc = "reading"
    /\ consumed = << >>
    /\ tt = ZeroGrid(Toy)
    /\ warnings = 0
    /\ instance = NoTimetable
    /\ refreshes = 0

\* one pass of "for line in buffer"
ReadLine ==
    /\ lpc = "reading"
    /\ Len(consumed) < MaxLines
    /\ \E ln \in SolutionLines(Toy) :
          LET st == LoadLine(Toy, [tt |-> tt, warnings |-> warnings, raised |-> FALSE], ln)
          IN  /\ tt' = st.tt
              /\ warnings' = st.warnings
              /\ lpc' = IF st.raised THEN "raised" ELSE "reading"
              /\ consumed' = Append(consumed, ln)
    /\ UNCHANGED <<instance, refreshes, fvars, evars, svars, cvars>>

\* the buffer is exhausted: cls(...), instance.update_redundant_data()
EndOfStream ==
    /\ lpc = "reading"
    /\ instance' = FinishLoad(Toy, [tt |-> tt, warnings |-> warnings, raised |-> FALSE])
    /\ lpc' = "done"
    /\ UNCHANGED <<consumed, tt, warnings, refreshes, fvars, evars, svars, cvars>>

\* a caller refreshes the loaded object again
Refresh ==
    /\ lpc = "done"
    /\ refreshes < MaxRefresh
    /\ instance' = UpdateRedundantData(instance)
    /\ refreshes' = refreshes + 1
    /\ UNCHANGED <<lpc, consumed, tt, warnings, fvars, evars, svars, cvars>>

LoadNext ==
    \/ ReadLine
    \/ EndOfStream
    \/ Refresh

InitLoad == LoadInit /\ FacultyIdle /\ EqIdle /\ SolverIdle /\ CallIdle

SpecLoad == InitLoad /\ [][LoadNext]_vars

\* ------------------------------------------------------- Timetable.__eq__
\* well-formed solution streams of the first day, up to two lines long
EqLines == [course : {"c0", "c1"}, room : {"rA", "rB"}, day : {0}, period : {0, 1}]

EqStreams == UNION { [1..n -> EqLines] : n \in 0..2 }

\* left = Timetable.from_stream(faculty, s)
LoadLeft ==
    /\ \E s_ \in EqStreams : left' = FromStream(Toy, s_)
    /\ UNCHANGED <<right, fvars, lvars, svars, cvars>>

\* right = Timetable.from_stream(faculty, s)
LoadRight ==
    /\ \E s_ \in EqStreams : right' = FromStream(Toy, s_)
    /\ UNCHANGED <<left, fvars, lvars, svars, cvars>>

EqNext ==
    \/ LoadLeft
    \/ LoadRight

InitEq == EqIdle /\ FacultyIdle /\ LoadIdle /\ SolverIdle /\ CallIdle

SpecEq == InitEq /\ [][EqNext]_vars

\* ------------------------------------------------------ the solver's runs
\* a complete solution of Toy to start from (--from-solution)
StartSolution ==
    << [course |-> "c0", room |-> "rA", day |-> 0, period |-> 1],
       [course |-> "c0", room |-> "rA", day |-> 1, period |-> 0],
       [course |-> "c1", room |-> "rB", day |-> 0, period |-> 1] >>

\* a solution that leaves a lecture of c0 unplaced
PartialSolution ==
    << [course |-> "c0", room |-> "rB", day |-> 1, period |-> 1],
       [course |-> "c1", room |-> "rA", day |-> 0, period |-> 1] >>

InitTimetables == {NoTimetable, FromStream(Toy, StartSolution), FromStream(Toy, PartialSolution)}

\* the seeds given to --seed
Seeds == {0, 23}

\* slice_ratio as <<numerator, denominator>>
Ratios == {<<1, 2>>, <<1, 1>>}

\* the Solver make_solver builds, with the argument of do_the_thing
Configs ==
    [ faculty : {Toy},
      violation_cost : {DefaultViolationCost(Toy)},
      seed : Seeds,
      shots : 1..MaxShots,
      iterations : {MaxIterations},
      slices : 0..MaxSlices,
      slice_ratio : Ratios,
      max_consecutive_rejects : {0, MaxRejects},
      sort_courses : {TRUE},    \* the default; the courses of Toy have equal weights
      repeat_sliced_results : BOOLEAN,
      init_timetable : InitTimetables ]

SolverInit ==
    /\ cfg \in Configs
    /\ pc = "start"
    /\ master = 0
    /\ slice_no = 0
    /\ rounds = 0
    /\ timetables = << >>
    /\ tasks = << >>
    /\ finished = << >>
    /\ result = NoResult
    /\ seen_costs = {}

\* do_the_thing: random.seed(self.seed), init_timetables
DoTheThing ==
    /\ pc = "start"
    /\ master' = Seed(cfg.seed)
    /\ timetables' = [i \in 1..cfg.shots |-> [cost |-> -1, timetable |-> cfg.init_timetable]]
    /\ pc' = "dispatch"
    /\ UNCHANGED <<cfg, slice_no, rounds, tasks, finished, result, seen_costs, fvars, lvars, evars, cvars>>

\* shot_timetables: every task is submitted, its inner seed drawn
Dispatch ==
    /\ pc = "dispatch"
    /\ \E sub \in {Submitted(cfg, timetables, master)} :
          /\ tasks' = sub.tasks
          /\ master' = sub.s
    /\ finished' = << >>
    /\ rounds' = rounds + 1
    /\ pc' = "join"
    /\ UNCHANGED <<cfg, slice_no, timetables, result, seen_costs, fvars, lvars, evars, cvars>>

Running == {k \in 1..Len(tasks) : tasks[k].state = "running"}

\* a free worker takes the next task of the queue and enters Solver.shot
ShotBegin(k) ==
    /\ pc = "join"
    /\ tasks[k].state = "pending"
    /\ \A j \in 1..(k - 1) : tasks[j].state # "pending"
    /\ Cardinality(Running) < MAX_WORKERS
    /\ \E entered \in {ShotEnter(cfg, tasks[k])} :
          /\ tasks' = [tasks EXCEPT ![k] = entered]
          /\ finished' = IF entered.state = "raised" THEN Append(finished, k) ELSE finished
    /\ UNCHANGED <<cfg, pc, master, slice_no, rounds, timetables, result, seen_costs,
                   fvars, lvars, evars, cvars>>

\* a worker runs one pass of the loop of its shot
ShotIterate(k) ==
    /\ pc = "join"
    /\ tasks[k].state = "running"
    /\ ShotLoops(cfg, tasks[k])
    /\ \E stepped \in {ShotBody(cfg, tasks[k])} :
          /\ tasks' = [tasks EXCEPT ![k] = stepped]
          /\ finished' = IF stepped.state = "raised" THEN Append(finished, k) ELSE finished
    /\ UNCHANGED <<cfg, pc, master, slice_no, rounds, timetables, result, seen_costs,
                   fvars, lvars, evars, cvars>>

\* the loop of a shot ends: return cost, timetable
ShotReturn(k) ==
    /\ pc = "join"
    /\ tasks[k].state = "running"
    /\ ~ShotLoops(cfg, tasks[k])
    /\ tasks' = [tasks EXCEPT ![k].state = "returned"]
    /\ finished' = Append(finished, k)
    /\ UNCHANGED <<cfg, pc, master, slice_no, rounds, timetables, result, seen_costs,
                   fvars, lvars, evars, cvars>>

\* every shot returned: shot_timetables returns the list of results
Collect ==
    /\ pc = "join"
    /\ \A k \in 1..Len(tasks) : tasks[k].state = "returned"
    /\ timetables' = Results(tasks, finished)
    /\ seen_costs' = seen_costs \cup {tasks[k].cost : k \in 1..Len(tasks)}
    /\ pc' = "slice"
    /\ UNCHANGED <<cfg, master, slice_no, rounds, tasks, finished, result, fvars, lvars, evars, cvars>>

\* a shot raised: the pool is joined and the error leaves do_the_thing
Abort ==
    /\ pc = "join"
    /\ \A k \in 1..Len(tasks) : tasks[k].state \in {"returned", "raised"}
    /\ \E k \in 1..Len(tasks) : tasks[k].state = "raised"
    /\ pc' = "raised"
    /\ UNCHANGED <<cfg, master, slice_no, rounds, timetables, tasks, finished, result,
                   seen_costs, fvars, lvars, evars, cvars>>

\* a pass of "for _ in range(self.slices)" with top > 0
NextSlice ==
    /\ pc = "slice"
    /\ slice_no < cfg.slices
    /\ Top(Len(timetables), cfg.slice_ratio) # 0
    /\ timetables' = Sliced(cfg, timetables)
    /\ slice_no' = slice_no + 1
    /\ pc' = "dispatch"
    /\ UNCHANGED <<cfg, master, rounds, tasks, finished, result, seen_costs, fvars, lvars, evars, cvars>>

\* the loop is over (exhausted, or "if not top: break"): return min(timetables)
Return ==
    /\ pc = "slice"
    /\ slice_no >= cfg.slices \/ Top(Len(timetables), cfg.slice_ratio) = 0
    /\ result' = FirstMin(timetables)
    /\ pc' = "done"
    /\ UNCHANGED <<cfg, master, slice_no, rounds, timetables, tasks, finished, seen_costs,
                   fvars, lvars, evars, cvars>>

Next ==
    \/ DoTheThing
    \/ Dispatch
    \/ \E k \in 1..Len(tasks) : ShotBegin(k)
    \/ \E k \in 1..Len(tasks) : ShotIterate(k)
    \/ \E k \in 1..Len(tasks) : ShotReturn(k)
    \/ Collect
    \/ Abort
    \/ NextSlice
    \/ Return

Init == SolverInit /\ FacultyIdle /\ LoadIdle /\ EqIdle /\ CallIdle

Spec == Init /\ [][Next]_vars

\* the pool runs every task it holds and the coordinator never waits for
\* anything but the pool
FairSpec == Spec /\ WF_vars(Next)

\* ------------------------------------------------------------ single calls
\* One call of a function of the solver or of the validator, on arguments
\* drawn from the sets below.
MaxCallLines == 2

\* Toy with a course far larger than the smaller room
BigInput ==
    [ToyInput EXCEPT !.name = "Big", !.courses[1].students = 500, !.rooms[2].capacity = 600]

\* Toy with days of ppd periods
FlatInput(ppd) == [ToyInput EXCEPT !.name = "Flat", !.periods_per_day = ppd]

\* three courses: c0 and c2 share a curriculum, c1 conflicts with nothing
ThreeInput ==
    [ name |-> "Three",
      courses |-> << [name |-> "c0", teacher |-> "t0", students |-> 30,
                       lectures |-> 2, min_working_days |-> 2],
                     [name |-> "c1", teacher |-> "t1", students |-> 20,
                       lectures |-> 1, min_working_days |-> 1],
                     [name |-> "c2", teacher |-> "t2", students |-> 20,
                       lectures |-> 1, min_working_days |-> 1] >>,
      rooms |-> << [name |-> "rA", capacity |-> 25], [name |-> "rB", capacity |-> 40] >>,
      days |-> 2,
      periods_per_day |-> 2,
      curricula |-> << [name |-> "q0", members |-> <<"c0", "c2">>] >>,
      constraints |-> << [course |-> "c0", day |-> 0, period |-> 0] >> ]

\* the seeds a call that draws random numbers starts from
CallSeeds == 0..3

\* the solution streams of up to MaxCallLines well-formed lines of F that
\* name the given courses, rooms and days
CallStreams(F, courses, rooms, days) ==
    UNION { [1..n -> [course : courses, room : rooms, day : days,
                      period : 0..(F.periods_per_day - 1)]] : n \in 0..MaxCallLines }

\* solver.evaluate(a), solver.evaluate(b) for two loaded timetables of one
\* faculty, the solver made with the default violation_cost
EvaluateCalls ==
    UNION { [ fn : {"evaluate"}, faculty : {F}, violation_cost : {DefaultViolationCost(F)},
              a : CallStreams(F, {"c0", "c1"}, {"rA", "rB"}, {0}),
              b : CallStreams(F, {"c0", "c1"}, {"rA", "rB"}, {0}) ] :
            F \in {Toy, FacultyFromStream(BigInput)} }

\* Validator(faculty, timetable).costs_on_curriculum_compactness
CompactnessCalls ==
    UNION { [ fn : {"costs_on_curriculum_compactness"}, faculty : {F},
              solution : CallStreams(F, {"c0", "c1"}, {"rA"}, 0..(Days(F) - 1)) ] :
            F \in {FacultyFromStream(FlatInput(ppd)) : ppd \in 1..3} }

\* solver.get_free_period(timetable, c, from_p): from_p is None (-1) as in
\* init, or the period of a lecture of c as in the mutations
FreePeriodCalls ==
    UNION { [ fn : {"get_free_period"}, faculty : {F}, solution : {sol}, c : {c},
              from_p : {-1} \cup {p \in 0..(F.periods - 1) :
                                    FromStream(F, sol).timetable[c][p] # 0},
              seed : CallSeeds ] :
            F \in {FacultyFromStream(ThreeInput)},
            sol \in CallStreams(FacultyFromStream(ThreeInput), {"c0", "c1", "c2"}, {"rA"}, {0, 1}),
            c \in 0..2 }

\* solver.init()
InitCalls ==
    [ fn : {"init"},
      faculty : {Toy, FacultyFromStream(ThreeInput), FacultyFromStream(FlatInput(1))},
      sort_courses : BOOLEAN,
      seed : CallSeeds ]

\* Three with one curriculum of the given members
ConflictInput(members) ==
    [ThreeInput EXCEPT !.name = "Conflict",
                       !.curricula = << [name |-> "q0", members |-> members] >>]

\* the member lists of the curriculum: a pair, all three courses, a course
\* listed twice, nobody
ConflictMembers == { <<"c0", "c2">>, <<"c0", "c1", "c2">>, <<"c0", "c0", "c1">>, << >> }

\* lines every stream of ConflictsCalls may start with
ConflictBase ==
    << [course |-> "c0", room |-> "rA", day |-> 0, period |-> 0],
       [course |-> "c1", room |-> "rB", day |-> 0, period |-> 0],
       [course |-> "c0", room |-> "rA", day |-> 0, period |-> 1] >>

\* Validator(faculty, timetable).costs_on_conflicts
ConflictsCalls ==
    UNION { [ fn : {"costs_on_conflicts"}, faculty : {F},
              solution : {base \o extra :
                            base \in {<< >>, ConflictBase},
                            extra \in CallStreams(F, {"c0", "c1", "c2"}, {"rA"}, {0, 1})} ] :
            F \in {FacultyFromStream(ConflictInput(m)) : m \in ConflictMembers} }

CallStart ==
    /\ call \in EvaluateCalls \cup CompactnessCalls \cup FreePeriodCalls \cup InitCalls
    /\ ret = NoReturn

\* what evaluate reads and returns for timetable t
Evaluation(F, violation_cost, t) ==
    [ timetable |-> t,
      hard |-> total_violation_cost(F, t),
      soft |-> total_soft_cost(F, t),
      cost |-> evaluate(F, violation_cost, t) ]

CallEvaluate ==
    /\ call.fn = "evaluate"
    /\ ret = NoReturn
    /\ \E a \in {FromStream(call.faculty, call.a)}, b \in {FromStream(call.faculty, call.b)} :
          ret' = [a |-> Evaluation(call.faculty, call.violation_cost, a),
                  b |-> Evaluation(call.faculty, call.violation_cost, b)]
    /\ UNCHANGED <<call, fvars, lvars, evars, svars>>

CallCompactness ==
    /\ call.fn = "costs_on_curriculum_compactness"
    /\ ret = NoReturn
    /\ \E t \in {FromStream(call.faculty, call.solution)} :
          ret' = IF CompactnessRaises(call.faculty, t)
                 THEN [raised |-> TRUE, timetable |-> t, v |-> -1]
                 ELSE [raised |-> FALSE, timetable |-> t,
                       v |-> costs_on_curriculum_compactness(call.faculty, t)]
    /\ UNCHANGED <<call, fvars, lvars, evars, svars>>

CallGetFreePeriod ==
    /\ call.fn = "get_free_period"
    /\ ret = NoReturn
    /\ \E t \in {FromStream(call.faculty, call.solution)} :
       \E got \in {get_free_period(call.faculty, t.timetable, Seed(call.seed), call.c,
                                   call.from_p)} :
          ret' = [raised |-> got.raised, timetable |-> t, v |-> got.v]
    /\ UNCHANGED <<call, fvars, lvars, evars, svars>>

CallInit ==
    /\ call.fn = "init"
    /\ ret = NoReturn
    /\ \E made \in {init(call.faculty, call.sort_courses, Seed(call.seed))} :
          ret' = [raised |-> made.raised, timetable |-> made.t]
    /\ UNCHANGED <<call, fvars, lvars, evars, svars>>

CallConflicts ==
    /\ call.fn = "costs_on_conflicts"
    /\ ret = NoReturn
    /\ \E t \in {FromStream(call.faculty, call.solution)} :
          ret' = [timetable |-> t, v |-> costs_on_conflicts(call.faculty, t)]
    /\ UNCHANGED <<call, fvars, lvars, evars, svars>>

CallNext ==
    \/ CallEvaluate
    \/ CallCompactness
    \/ CallGetFreePeriod
    \/ CallInit

InitCall == CallStart /\ FacultyIdle /\ LoadIdle /\ EqIdle /\ SolverIdle

SpecCall == InitCall /\ [][CallNext]_vars

\* the calls of costs_on_conflicts alone
InitConflicts ==
    /\ call \in ConflictsCalls
    /\ ret = NoReturn
    /\ FacultyIdle /\ LoadIdle /\ EqIdle /\ SolverIdle

SpecConflicts == InitConflicts /\ [][CallConflicts]_vars

\* ================================================================ claims

\* the five redundant caches of a Timetable
CachesOf(t) ==
    <<t.room_lectures, t.curriculum_period_lectures, t.course_daily_lectures,
      t.working_days, t.used_rooms>>

C4_RefreshIdempotent ==
    [][(lpc = "done" /\ refreshes' = refreshes + 1)
         => CachesOf(instance') = CachesOf(instance)]_vars

\* C7: the conflict relation of a built faculty is symmetric and irreflexive.
C7_ConflictSymmetricIrreflexive ==
    fpc = "built" =>
        /\ \A a \in DOMAIN conflict : \A b \in DOMAIN conflict :
              conflict[a][b] = conflict[b][a]
        /\ \A a \in DOMAIN conflict : ~conflict[a][a]

\* the line the last pass of the loop read
LastLine(lines) == lines[Len(lines)]

\* a pass of the loop of Timetable.from_stream happens in this step
ReadsALine == lpc = "reading" /\ Len(consumed') = Len(consumed) + 1

\* C8: a line whose day is >= D or whose timeslot is >= P is skipped with one
\* warning, writes no cell and raises no error.
C8_OutOfRangeLineSkipped ==
    [][(/\ ReadsALine
        /\ \/ LastLine(consumed').day >= Days(Toy)
           \/ LastLine(consumed').period >= Toy.periods_per_day)
         => (tt' = tt /\ warnings' = warnings + 1 /\ lpc' = "reading")]_vars

KnownCourse(F, ln) == \E i \in 1..Len(F.course_names) : F.course_names[i] = ln.course

KnownRoom(F, ln) == \E i \in 2..Len(F.room_names) : F.room_names[i] = ln.room

InRange(F, ln) == ln.day < Days(F) /\ ln.period < F.periods_per_day

\* the (course, period) cell a line names
CellOf(F, ln) ==
    <<IndexOf(F.course_names, ln.course), ln.day * F.periods_per_day + ln.period>>

\* the line names a cell of the grid that is already filled
NamesFilledCell(F, grid, ln) ==
    /\ KnownCourse(F, ln)
    /\ CellOf(F, ln)[2] \in 0..(F.periods - 1)
    /\ grid[CellOf(F, ln)[1]][CellOf(F, ln)[2]] # 0

\* the lines of a stream that name a known course and a known room
Wellnamed(F, lines) == {i \in 1..Len(lines) : KnownCourse(F, lines[i]) /\ KnownRoom(F, lines[i])}

\* the grid of the accepted lines alone: a cell holds the room of the first
\* well-named line for it
AcceptedGrid(F, lines) ==
    [c \in 0..(F.courses - 1) |-> [p \in 0..(F.periods - 1) |->
        LET hits == {i \in Wellnamed(F, lines) : CellOf(F, lines[i]) = <<c, p>>}
        IN  IF hits = {} THEN 0
            ELSE IndexOf(F.room_names, lines[SetMin(hits)].room)]]

\* the lines rejected: badly named, or naming the cell of an earlier well-named line
RejectedLines(F, lines) ==
    {i \in 1..Len(lines) :
        \/ i \notin Wellnamed(F, lines)
        \/ \E j \in Wellnamed(F, lines) : j < i /\ CellOf(F, lines[j]) = CellOf(F, lines[i])}

\* C9: a line naming an unknown course, an unknown room or an already filled
\* cell changes no cell and adds one warning, and parsing continues; a stream of
\* lines with valid days and timeslots loads as the grid of its accepted lines
\* (first line of a cell wins) with one warning per rejected line.
C9_BadLinesSkippedAndCounted ==
    /\ [][(/\ ReadsALine
           /\ \/ ~KnownCourse(Toy, LastLine(consumed'))
              \/ ~KnownRoom(Toy, LastLine(consumed'))
              \/ NamesFilledCell(Toy, tt, LastLine(consumed')))
            => (tt' = tt /\ warnings' = warnings + 1 /\ lpc' = "reading")]_vars
    /\ []((/\ lpc = "done"
           /\ \A i \in 1..Len(consumed) : InRange(Toy, consumed[i]))
            => /\ instance.timetable = AcceptedGrid(Toy, consumed)
               /\ instance.warnings = Cardinality(RejectedLines(Toy, consumed)))

\* a load that rejected a second line for a filled cell, naming another room,
\* and kept the first
C9_Witness ==
    /\ lpc = "done"
    /\ Len(consumed) = 2
    /\ \A i \in 1..2 : InRange(Toy, consumed[i]) /\ KnownCourse(Toy, consumed[i])
                        /\ KnownRoom(Toy, consumed[i])
    /\ CellOf(Toy, consumed[1]) = CellOf(Toy, consumed[2])
    /\ consumed[1].room # consumed[2].room
    /\ instance.warnings = 1
    /\ instance.timetable[CellOf(Toy, consumed[1])[1]][CellOf(Toy, consumed[1])[2]]
         = IndexOf(Toy.room_names, consumed[1].room)

\* C6: two Timetables compare equal exactly when they have the same Faculty
\* and the same grid, whatever their warnings and caches.
C6_EqualIffSameGrid ==
    (IsTimetable(left) /\ IsTimetable(right)) =>
        (TimetableEq(left, right)
           <=> (left.faculty = right.faculty /\ left.timetable = right.timetable))

\* ---------------------------------------------------------- funnel claims
\* C1: do_the_thing returns a pair whose cost is the minimum over the results
\* of all shots run in all rounds of the funnel.
C1_ReturnsOverallMinimum ==
    pc = "done" => result.cost = SetMin(seen_costs)

RECURSIVE RunShot(_, _)
\* a shot run from start to end with nothing else running
RunShot(c, task) ==
    IF task.state = "pending" THEN With(ShotEnter(c, task), LAMBDA e : RunShot(c, e))
    ELSE IF task.state = "running"
    THEN IF ShotLoops(c, task) THEN With(ShotBody(c, task), LAMBDA b : RunShot(c, b))
         ELSE [task EXCEPT !.state = "returned"]
    ELSE task

RECURSIVE RunFunnel(_, _, _, _)
\* the funnel with the shots of a round run one after the other in slot order
RunFunnel(c, tts, m, k) ==
    With(Submitted(c, tts, m), LAMBDA sub :
    With([i \in 1..Len(sub.tasks) |-> RunShot(c, sub.tasks[i])], LAMBDA ran :
        IF \E i \in 1..Len(ran) : ran[i].state = "raised"
        THEN [raised |-> TRUE, result |-> NoResult]
        ELSE With([i \in 1..Len(ran) |->
                     [cost |-> ran[i].cost, timetable |-> ran[i].timetable]], LAMBDA res :
            IF k < c.slices /\ (Len(res) * c.slice_ratio[1]) \div c.slice_ratio[2] # 0
            THEN RunFunnel(c, Sliced(c, res), sub.s, k + 1)
            ELSE [raised |-> FALSE, result |-> FirstMin(res)])))

SequentialRun(c) ==
    RunFunnel(c, [i \in 1..c.shots |-> [cost |-> -1, timetable |-> c.init_timetable]],
              Seed(c.seed), 0)

\* C2: for a fixed faculty, parameters and master seed, do_the_thing returns
\* the same pair under every completion order of the workers: the pair of the
\* run that takes the shots of every round one by one in slot order.
C2_SameResultUnderEveryCompletionOrder ==
    /\ pc = "done" => /\ ~SequentialRun(cfg).raised
                      /\ result = SequentialRun(cfg).result
    /\ pc = "raised" => SequentialRun(cfg).raised

\* the run ended after a round whose second shot completed before its first,
\* the two returning different timetables
C2_Witness ==
    /\ pc = "done"
    /\ rounds >= 2
    /\ finished = <<2, 1>>
    /\ tasks[1].timetable # tasks[2].timetable
    /\ tasks[1].seed # tasks[2].seed

\* the timetables the shots have evaluated: the current one (built by init,
\* loaded, or accepted) and the last candidate of every shot, and the result
Evaluated ==
    {tasks[k].timetable : k \in {j \in 1..Len(tasks) : tasks[j].state \in {"running", "returned"}}}
    \cup {tasks[k].new_timetable : k \in {j \in 1..Len(tasks) : IsTimetable(tasks[j].new_timetable)}}
    \cup (IF pc = "done" THEN {result.timetable} ELSE {})

\* the caches of t agree with its grid, room_lectures for the rooms of rs
CachesAgree(t, rs) ==
    LET F == t.faculty
        g == t.timetable
        Cs == 0..(F.courses - 1)
        Ps == 0..(F.periods - 1)
        Ds == 0..(Days(F) - 1)
        DayOf(d) == {p \in Ps : p \div F.periods_per_day = d}
    IN  /\ \A r \in rs : \A p \in Ps :
              t.room_lectures[r][p] = Cardinality({c \in Cs : g[c][p] = r})
        /\ \A q \in 0..(F.curricula - 1) : \A p \in Ps :
              t.curriculum_period_lectures[q][p]
                = Cardinality({c \in Cs :
                      /\ \E i \in 1..Len(F.curricula_vect[q + 1].members) :
                            F.curricula_vect[q + 1].members[i] = F.course_vect[c + 1].name
                      /\ g[c][p] # 0})
        /\ \A c \in Cs : \A d \in Ds :
              t.course_daily_lectures[c][d] = Cardinality({p \in DayOf(d) : g[c][p] # 0})
        /\ \A c \in Cs :
              t.working_days[c] = Cardinality({d \in Ds : t.course_daily_lectures[c][d] > 0})
        /\ \A c \in Cs :
              /\ \A i, j \in 1..Len(t.used_rooms[c]) :
                    t.used_rooms[c][i] = t.used_rooms[c][j] => i = j
              /\ {t.used_rooms[c][i] : i \in 1..Len(t.used_rooms[c])}
                    = {g[c][p] : p \in Ps} \ {0}

\* C5 (as stated): every timetable a shot evaluates has caches that agree with
\* its grid, room_lectures[r][p] being the number of courses c with
\* tt[c][p] = r for every index r of room_lectures, 0 included.
C5_CachesAgreeWithGrid ==
    pc # "idle" => \A t \in Evaluated : CachesAgree(t, 0..t.faculty.rooms)

\* C5 (amended): every timetable a shot evaluates has caches that agree with
\* its grid, room_lectures[r][p] being the number of courses c with
\* tt[c][p] = r for every room r in 1..R, and row 0 of room_lectures being 0.
C5_CachesAgreeForRooms ==
    pc # "idle" =>
        \A t \in Evaluated :
            /\ CachesAgree(t, 1..t.faculty.rooms)
            /\ \A p \in 0..(t.faculty.periods - 1) : t.room_lectures[0][p] = 0

\* a shot that started from the loaded timetable has accepted a candidate and
\* then rejected one, and its candidate holds two lectures of a course in one room
C5_Witness ==
    \E k \in 1..Len(tasks) :
        /\ IsTimetable(cfg.init_timetable)
        /\ tasks[k].state = "running"
        /\ tasks[k].approves >= 1
        /\ tasks[k].rejects >= 1
        /\ IsTimetable(tasks[k].new_timetable)
        /\ \E c \in 0..(Toy.courses - 1) : \E p, q \in 0..(Toy.periods - 1) :
              /\ p # q
              /\ tasks[k].new_timetable.timetable[c][p] # 0
              /\ tasks[k].new_timetable.timetable[c][p] = tasks[k].new_timetable.timetable[c][q]

\* floor(len(timetables) * slice_ratio) at the start of a slice round
FloorTop == (Len(timetables) * cfg.slice_ratio[1]) \div cfg.slice_ratio[2]

\* C10: when floor(len(timetables) * slice_ratio) is 0 at the start of a slice
\* round, no further shot is dispatched and do_the_thing returns the
\* lowest-cost result of the last completed round; every run dispatches at
\* most slices + 1 rounds and then terminates.
C10_FunnelHaltsAndTerminates ==
    /\ [][(pc = "slice" /\ slice_no < cfg.slices /\ FloorTop = 0) =>
            /\ pc' = "done"
            /\ rounds' = rounds
            /\ tasks' = tasks
            /\ \E i \in 1..Len(timetables) :
                  /\ result' = timetables[i]
                  /\ \A j \in 1..Len(timetables) : timetables[i].cost <= timetables[j].cost]_vars
    /\ [](pc # "idle" => rounds <= cfg.slices + 1)
    /\ [][pc = "done" => pc' = "done" /\ rounds' = rounds]_vars
    /\ <>(pc \in {"done", "raised"})

\* the funnel stopped before its last slice round because the one timetable
\* left made top 0
C10_Witness ==
    /\ pc = "done"
    /\ slice_no = 1
    /\ cfg.slices = 2
    /\ rounds = 2
    /\ Len(timetables) = 1
    /\ FloorTop = 0
    /\ result = timetables[1]

\* ------------------------------------------------------------ shot claims
\* the tasks that are in or past the loop of Solver.shot
InLoop == {k \in 1..Len(tasks) : tasks[k].state \in {"running", "returned"}}

\* task k completes one pass of the loop of Solver.shot in this step
Iterates(k) ==
    /\ pc = "join"
    /\ tasks[k].state = "running"
    /\ tasks'[k].state = "running"
    /\ tasks'[k].i = tasks[k].i + 1

\* C11: a shot performs at most `iterations` iterates and never more than
\* max_consecutive_rejects + 1 rejected iterates in a row: every acceptance
\* resets the reject counter to 0, every rejection adds 1 to it, and no iterate
\* starts once rejects > max_consecutive_rejects; with
\* max_consecutive_rejects = 0 a shot has at most one rejected iterate.
C11_ShotLoopBounded ==
    /\ [](pc # "idle" =>
            \A k \in InLoop :
                /\ tasks[k].i <= cfg.iterations
                /\ tasks[k].rejects <= cfg.max_consecutive_rejects + 1
                /\ cfg.max_consecutive_rejects = 0 => tasks[k].i - tasks[k].approves <= 1)
    /\ [][\A k \in 1..Len(tasks) :
            Iterates(k) =>
                /\ tasks[k].i < cfg.iterations
                /\ tasks[k].rejects <= cfg.max_consecutive_rejects
                /\ \/ /\ tasks'[k].approves = tasks[k].approves + 1
                      /\ tasks'[k].rejects = 0
                   \/ /\ tasks'[k].approves = tasks[k].approves
                      /\ tasks'[k].rejects = tasks[k].rejects + 1]_vars

\* a shot with max_consecutive_rejects = 0 returned after its first iterate,
\* a rejected one, with iterations left
C11_Witness ==
    \E k \in 1..Len(tasks) :
        /\ cfg.max_consecutive_rejects = 0
        /\ tasks[k].state = "returned"
        /\ tasks[k].i = 1
        /\ tasks[k].rejects = 1
        /\ tasks[k].i < cfg.iterations

\* iterate(timetable) as task k calls it next: the candidate, the generator after it
Candidate(k) == iterate(tasks[k].timetable, tasks[k].s)

\* the uniform draw that follows the candidate of task k is below 0.01
NoiseDraw(k) == RandNoise(Candidate(k).s).v

\* the pass of task k in this step replaces its current pair
Accepted(k) == tasks'[k].approves = tasks[k].approves + 1

\* C13: in the shot loop the current (cost, timetable) is replaced by the
\* candidate iff the candidate's cost is strictly lower than the current cost
\* or the uniform draw is below 0.01; on rejection the current cost and the
\* grid of the current timetable are unchanged.
C13_AcceptIffLowerOrNoise ==
    [][\A k \in 1..Len(tasks) :
          Iterates(k) =>
              /\ tasks'[k].new_timetable = Candidate(k).t
              /\ Accepted(k) <=> (tasks'[k].new_cost < tasks[k].cost \/ NoiseDraw(k))
              /\ Accepted(k) => /\ tasks'[k].cost = tasks'[k].new_cost
                                /\ tasks'[k].timetable = tasks'[k].new_timetable
              /\ ~Accepted(k) => /\ tasks'[k].cost = tasks[k].cost
                                 /\ tasks'[k].timetable.timetable = tasks[k].timetable.timetable]_vars

\* a shot re-run from a retained result took a candidate of higher cost on
\* the noise draw (its cost is above the one it started with), and beside it
\* a shot holds a rejected candidate that costs no less than its current one
C13_Witness ==
    /\ pc = "join"
    /\ \E k \in InLoop :
          /\ timetables[k].cost >= 0
          /\ tasks[k].approves >= 1
          /\ tasks[k].cost > timetables[k].cost
    /\ \E k \in InLoop :
          /\ tasks[k].rejects >= 1
          /\ tasks[k].new_cost >= tasks[k].cost

\* C14: when iterate returns a timetable with the grid of the current one,
\* the shot finds the two equal, takes new_cost = cost without evaluating, and
\* the pass is a rejected iterate unless the noise draw accepts it.
C14_NoOpKeepsCost ==
    [][\A k \in 1..Len(tasks) :
          (Iterates(k) /\ Candidate(k).t.timetable = tasks[k].timetable.timetable) =>
              /\ TimetableEq(tasks'[k].new_timetable, tasks[k].timetable)
              /\ tasks'[k].new_cost = tasks[k].cost
              /\ Accepted(k) <=> NoiseDraw(k)
              /\ ~Accepted(k) => tasks'[k].rejects = tasks[k].rejects + 1]_vars

\* a shot holds a rejected candidate with the grid and the cost of its
\* current timetable
C14_Witness ==
    \E k \in InLoop :
        /\ tasks[k].rejects >= 1
        /\ IsTimetable(tasks[k].new_timetable)
        /\ tasks[k].new_timetable.timetable = tasks[k].timetable.timetable
        /\ tasks[k].new_cost = tasks[k].cost

\* ---------------------------------------------------------- slice claims
\* result i of a round ranks before result j: lower cost, or the same cost in
\* an earlier slot
RanksBefore(tts, i, j) ==
    tts[i].cost < tts[j].cost \/ (tts[i].cost = tts[j].cost /\ i < j)

\* the place of result i among the results of its round, from 1
RankOf(tts, i) == 1 + Cardinality({j \in 1..Len(tts) : RanksBefore(tts, j, i)})

\* C15: in a slice round with top = floor(len(timetables) * slice_ratio) > 0
\* the list handed to the shots is the top lowest-cost results of the previous
\* round in order of cost, ties won by the earlier slot, so that no retained
\* result costs more than a discarded one; it is repeated cyclically up to
\* `shots` entries when repeat_sliced_results is true and has `top` entries
\* otherwise; one task is dispatched per entry and starts from the entry's
\* timetable and cost.
C15_SliceKeepsTheBest ==
    /\ [][(pc = "slice" /\ pc' = "dispatch") =>
            LET top == FloorTop
                n == IF cfg.repeat_sliced_results THEN cfg.shots ELSE top
            IN  /\ top > 0
                /\ Len(timetables') = n
                /\ \A i \in 1..n : \E j \in 1..Len(timetables) :
                      /\ RankOf(timetables, j) = ((i - 1) % top) + 1
                      /\ timetables'[i] = timetables[j]
                /\ \A j, d \in 1..Len(timetables) :
                      (RankOf(timetables, j) <= top /\ RankOf(timetables, d) > top)
                          => timetables[j].cost <= timetables[d].cost]_vars
    /\ [][(pc = "dispatch" /\ pc' = "join" /\ rounds >= 1) =>
            /\ Len(tasks') = Len(timetables)
            /\ \A i \in 1..Len(timetables) :
                  /\ tasks'[i].state = "pending"
                  /\ tasks'[i].cost = timetables[i].cost
                  /\ tasks'[i].timetable = timetables[i].timetable]_vars
    /\ [][\A k \in 1..Len(tasks) :
            (/\ pc = "join"
             /\ rounds >= 2
             /\ tasks[k].state = "pending"
             /\ tasks'[k].state = "running") =>
                /\ tasks'[k].timetable = tasks[k].timetable
                /\ tasks'[k].cost = tasks[k].cost]_vars

\* a slice step kept the result of the second slot, cheaper than that of the
\* first, and repeated it to load every shot
C15_Witness ==
    /\ pc = "dispatch"
    /\ slice_no >= 1
    /\ cfg.repeat_sliced_results
    /\ Len(tasks) = 2
    /\ tasks[2].cost < tasks[1].cost
    /\ Len(timetables) = cfg.shots
    /\ \A i \in 1..Len(timetables) :
          timetables[i] = [cost |-> tasks[2].cost, timetable |-> tasks[2].timetable]

\* ------------------------------------------------------- mutation claims
\* the list get_random_option draws a mutation from, every entry replaced by
\* the implementation iterate runs for it
MutationDraws ==
    With(OptionList(mutation_chances, DictKeys(mutation_chances), 1), LAMBDA options :
        [i \in 1..Len(options) |-> DictGet(mutate, options[i])])

\* the number of entries of that list that run implementation fn
DrawsOf(fn) == Cardinality({i \in 1..Len(MutationDraws) : MutationDraws[i] = fn})

\* C16: iterate samples each mutation from six distinct operators with
\* relative weights change_room 4, change_period 4, change_both 2, swap_room 2,
\* swap_period 2, swap_both 1, and each of the six can be selected and runs its
\* own implementation.
C16_SixOperatorsWeighted ==
    (pc # "idle" /\ \E k \in InLoop : tasks[k].i >= 1) =>
        /\ Len(MutationDraws) = 15
        /\ DrawsOf("mutate_change_room") = 4
        /\ DrawsOf("mutate_change_period") = 4
        /\ DrawsOf("mutate_change_both") = 2
        /\ DrawsOf("mutate_swap_room") = 2
        /\ DrawsOf("mutate_swap_period") = 2
        /\ DrawsOf("mutate_swap_both") = 1

\* pick_course_period_room draws a course and a lecture index i and finds
\* fewer than i + 1 occupied cells in the row of the course
PickMisses(F, g, s, bad_course) ==
    With(Choice(s, (0..(F.courses - 1)) \ {bad_course}), LAMBDA course :
        /\ ~course.raised
        /\ Lectures(F, course.v) > 0
        /\ RandBelow(course.s, Lectures(F, course.v)).v + 1
             > Cardinality({p \in 0..(F.periods - 1) : g[course.v][p] # 0}))

\* the first pick of the mutation that the next iterate of task k runs misses
FirstPickMisses(k) ==
    With(get_random_option(mutation_count_chances, tasks[k].s), LAMBDA cnt :
    With(get_random_option(mutation_chances, cnt.s), LAMBDA pick :
        PickMisses(cfg.faculty, tasks[k].timetable.timetable, pick.s, -1)))

\* C19: when a mutation picks course c and lecture index i but row c holds
\* fewer than i + 1 occupied cells, the mutation leaves the grid unchanged and
\* the shot goes on: the pass completes with a candidate that has the grid of
\* the current timetable, and no error leaves the shot.
C19_MissingLectureIsNoOp ==
    [][\A k \in 1..Len(tasks) :
          (/\ pc = "join"
           /\ tasks[k].state = "running"
           /\ ShotLoops(cfg, tasks[k])
           /\ tasks'[k] # tasks[k]
           /\ FirstPickMisses(k)) =>
              /\ tasks'[k].state = "running"
              /\ tasks'[k].i = tasks[k].i + 1
              /\ tasks'[k].new_timetable.timetable = tasks[k].timetable.timetable]_vars

\* ------------------------------------------------------------ call claims
\* C12: with the default violation_cost = 100 * (sum of L_c), of two
\* timetables of one faculty the one with more hard violations has the higher
\* ranking cost hard * violation_cost + soft, whatever the soft costs are.
C12_HardViolationsDominate ==
    (call.fn = "evaluate" /\ ret # NoReturn) =>
        /\ ret.a.hard > ret.b.hard => ret.a.cost > ret.b.cost
        /\ ret.b.hard > ret.a.hard => ret.b.cost > ret.a.cost

\* the courses in conflict with c: those sharing a curriculum or a teacher
Conflicting(F, c) == {k \in 0..(F.courses - 1) : F.conflict[c][k]}

\* the periods where c has no lecture, other than from_p, and c is available
Stage3(F, g, c, from_p) ==
    {p \in 0..(F.periods - 1) : g[c][p] = 0 /\ p # from_p /\ F.availability[c][p]}

\* those of them where no course in conflict with c has a lecture
Stage4(F, g, c, from_p) ==
    {p \in Stage3(F, g, c, from_p) : \A k \in Conflicting(F, c) : g[k][p] = 0}

\* C17: when at least two periods survive all filters of the cascade for
\* course c, the period get_free_period returns is one where c has no lecture,
\* c is available and no course in conflict with c has a lecture; when fewer
\* than two survive it is one where c has no lecture and is available.
C17_FreePeriodAvoidsConflicts ==
    (call.fn = "get_free_period" /\ ret # NoReturn /\ ~ret.raised) =>
        IF Cardinality(Stage4(call.faculty, ret.timetable.timetable, call.c, call.from_p)) >= 2
        THEN ret.v \in Stage4(call.faculty, ret.timetable.timetable, call.c, call.from_p)
        ELSE ret.v \in Stage3(call.faculty, ret.timetable.timetable, call.c, call.from_p)

\* C18: for a faculty in which every course has L_c <= T, init raises no
\* exception and places exactly L_c lectures of every course.
C18_InitPlacesEveryLecture ==
    (/\ call.fn = "init"
     /\ ret # NoReturn
     /\ \A c \in 0..(call.faculty.courses - 1) : Lectures(call.faculty, c) <= call.faculty.periods) =>
        /\ ~ret.raised
        /\ \A c \in 0..(call.faculty.courses - 1) :
              RowLectures(call.faculty, ret.timetable, c) = Lectures(call.faculty, c)

\* the neighbours of period p that exist and lie on the day of p
SameDayNeighbours(F, p) ==
    {n \in {p - 1, p + 1} :
        n \in 0..(F.periods - 1) /\ n \div F.periods_per_day = p \div F.periods_per_day}

\* the sum of curriculum_period_lectures[g][p] over the isolated (g, p)
IsolatedLectures(F, t) ==
    LET cpl == t.curriculum_period_lectures
        k == [q \in (0..(F.curricula - 1)) \X (0..(F.periods - 1)) |->
                 IF cpl[q[1]][q[2]] > 0
                    /\ \A n \in SameDayNeighbours(F, q[2]) : cpl[q[1]][n] = 0
                 THEN cpl[q[1]][q[2]] ELSE 0]
    IN  SumOver(k, DOMAIN k)

\* C20: the curriculum-compactness term is the sum of
\* curriculum_period_lectures[g][p] over the curricula g and periods p with a
\* lecture of g of which no same-day neighbour holds a lecture of g, for every
\* periods_per_day >= 1 and for the last period of the last day.
C20_CompactnessCountsIsolated ==
    (call.fn = "costs_on_curriculum_compactness" /\ ret # NoReturn) =>
        /\ ~ret.raised
        /\ ret.v = IsolatedLectures(call.faculty, ret.timetable)

\* the triples ({c1, c2}, p): two distinct courses in conflict, both with a
\* lecture at period p
ConflictTriples(F, t) ==
    { q \in (SUBSET (0..(F.courses - 1))) \X (0..(F.periods - 1)) :
        /\ Cardinality(q[1]) = 2
        /\ \E a \in q[1], b \in q[1] : a # b /\ (F.conflict[a][b] \/ F.conflict[b][a])
        /\ \A c \in q[1] : t.timetable[c][q[2]] # 0 }

\* C21: the Conflicts term is the number of triples (unordered pair of
\* conflicting courses, period p) in which both courses have a lecture at p:
\* each pair counts once per period and a pair that is not in conflict counts
\* for nothing.
C21_ConflictsCountsPairsOnce ==
    (call.fn = "costs_on_conflicts" /\ ret # NoReturn) =>
        ret.v = Cardinality(ConflictTriples(call.faculty, ret.timetable))

\* Conflicts was computed as 2 or more on a timetable where two courses that
\* are not in conflict also share a period
C21_Witness ==
    /\ call.fn = "costs_on_conflicts"
    /\ ret # NoReturn
    /\ ret.v >= 2
    /\ \E a, b \in 0..(call.faculty.courses - 1) : \E p \in 0..(call.faculty.periods - 1) :
          /\ a # b
          /\ ~call.faculty.conflict[a][b]
          /\ ~call.faculty.conflict[b][a]
          /\ ret.timetable.timetable[a][p] # 0
          /\ ret.timetable.timetable[b][p] # 0

\* n(r, p): the courses that the grid puts in room r at period p
RoomLoad(t, r, p) == Cardinality({c \in 0..(t.faculty.courses - 1) : t.timetable[c][p] = r})

\* the sum over the rooms 1..R and the periods of max(0, n(r, p) - 1)
DoubleBookings(t) ==
    LET k == [q \in (1..t.faculty.rooms) \X (0..(t.faculty.periods - 1)) |->
                 IF RoomLoad(t, q[1], q[2]) > 1 THEN RoomLoad(t, q[1], q[2]) - 1 ELSE 0]
    IN  SumOver(k, DOMAIN k)

\* C22: on every timetable the solver evaluates, the RoomOccupation term is
\* the sum over the rooms r in 1..R and the periods p of max(0, n(r, p) - 1),
\* n(r, p) being the number of courses the grid puts in r at p, and row 0 of
\* room_lectures is 0 at every period.
C22_RoomOccupationFromGrid ==
    pc # "idle" =>
        \A t \in Evaluated :
            /\ costs_on_room_occupation(t.faculty, t) = DoubleBookings(t)
            /\ \A p \in 0..(t.faculty.periods - 1) : t.room_lectures[0][p] = 0

\* a shot that accepted a candidate earlier holds a candidate made by iterate
\* in which two courses share a room at a period while another period has a
\* course without a lecture
C22_Witness ==
    \E k \in 1..Len(tasks) :
        /\ tasks[k].state = "running"
        /\ tasks[k].approves >= 1
        /\ tasks[k].i >= 2
        /\ IsTimetable(tasks[k].new_timetable)
        /\ costs_on_room_occupation(Toy, tasks[k].new_timetable) >= 1
        /\ \E c \in 0..(Toy.courses - 1), p \in 0..(Toy.periods - 1) :
              tasks[k].new_timetable.timetable[c][p] = 0

\* the six mutation operators, by the name of their function
Operators ==
    {"mutate_change_room", "mutate_change_period", "mutate_change_both",
     "mutate_swap_room", "mutate_swap_period", "mutate_swap_both"}

\* operator fn run on grid g with generator s
RunOperator(fn, F, g, s) ==
    CASE fn = "mutate_change_room" -> mutate_change_room(F, g, s)
      [] fn = "mutate_change_period" -> mutate_change_period(F, g, s)
      [] fn = "mutate_change_both" -> mutate_change_both(F, g, s)
      [] fn = "mutate_swap_room" -> mutate_swap_room(F, g, s)
      [] fn = "mutate_swap_period" -> mutate_swap_period(F, g, s)
      [] fn = "mutate_swap_both" -> mutate_swap_both(F, g, s)

\* the number of occupied cells of every row of grid g
RowCounts(F, g) ==
    [c \in 0..(F.courses - 1) |-> Cardinality({p \in 0..(F.periods - 1) : g[c][p] # 0})]

\* operator fn, run on g with generator s, returns a grid with the row counts
\* of g whose cells hold 0 or a room of 1..R, and every cell it changed to a
\* non-zero value holds a room of 1..R
KeepsRows(fn, F, g, s) ==
    With(RunOperator(fn, F, g, s), LAMBDA res :
        res.raised
        \/ /\ RowCounts(F, res.g) = RowCounts(F, g)
           /\ \A c \in 0..(F.courses - 1), p \in 0..(F.periods - 1) :
                 res.g[c][p] # g[c][p] => res.g[c][p] \in 0..F.rooms)

\* the timetable shot k started from: the one it was given, or the one its
\* init built from its seed
StartOf(k) ==
    IF IsTimetable(timetables[k].timetable) THEN timetables[k].timetable
    ELSE init(cfg.faculty, cfg.sort_courses, Seed(tasks[k].seed)).t

Complete(t) == costs_on_lectures(t.faculty, t) = 0

\* shot k enters its loop or completes a pass of it in this step
ShotSteps(k) ==
    /\ pc = "join"
    /\ pc' = "join"
    /\ tasks[k].state \in {"pending", "running"}
    /\ tasks'[k].state = "running"
    /\ tasks'[k] # tasks[k]

\* C23: each of the six mutation operators keeps the number of occupied cells
\* of every row and writes only rooms of 1..R, on every timetable a shot
\* comes to hold; and a shot that started from a timetable with exactly L_c
\* lectures of every course visits only timetables whose Lectures term is 0,
\* in every funnel round.
C23_MutationsKeepLectures ==
    [][\A k \in 1..Len(tasks) :
          ShotSteps(k) =>
              /\ \A fn \in Operators :
                    KeepsRows(fn, cfg.faculty, tasks'[k].timetable.timetable, tasks'[k].s)
              /\ Complete(StartOf(k)) =>
                    /\ Complete(tasks'[k].timetable)
                    /\ IsTimetable(tasks'[k].new_timetable) =>
                          Complete(tasks'[k].new_timetable)]_vars

\* in a round after a slice, a shot that started from a complete timetable
\* has accepted a candidate and holds a grid other than the one it started
\* from, which mutate_change_period and mutate_swap_period both change
C23_Witness ==
    /\ pc = "join"
    /\ rounds >= 2
    /\ \E k \in InLoop :
          /\ tasks[k].state = "running"
          /\ Complete(StartOf(k))
          /\ tasks[k].approves >= 1
          /\ tasks[k].timetable.timetable # StartOf(k).timetable
          /\ \A fn \in {"mutate_change_period", "mutate_swap_period"} :
                With(RunOperator(fn, cfg.faculty, tasks[k].timetable.timetable, tasks[k].s),
                     LAMBDA res : ~res.raised /\ res.g # tasks[k].timetable.timetable)

\* hard_count(t) * violation_cost + soft_count(t), from the eight terms
CostOf(t) ==
    (costs_on_lectures(t.faculty, t) + costs_on_conflicts(t.faculty, t)
     + costs_on_availability(t.faculty, t) + costs_on_room_occupation(t.faculty, t))
        * cfg.violation_cost
    + costs_on_room_capacity(t.faculty, t)
    + costs_on_min_working_days(t.faculty, t) * MIN_WORKING_DAYS_COST
    + costs_on_curriculum_compactness(t.faculty, t) * CURRICULUM_COMPACTNESS_COST
    + costs_on_room_stability(t.faculty, t) * ROOM_STABILITY_COST

\* a pair whose cost is the cost of its timetable
Matches(pair) == pair.cost = CostOf(pair.timetable)

\* the costs task holds are those of its timetables: the current pair once it
\* runs, the pair it was handed while it waits, and its last candidate
TaskMatches(task) ==
    /\ task.state \in {"running", "returned"} => Matches(task)
    /\ (task.state = "pending" /\ task.cost # -1) => Matches(task)
    /\ IsTimetable(task.new_timetable) => task.new_cost = CostOf(task.new_timetable)

\* C24: a stored cost is the cost of its timetable, hard_count *
\* violation_cost + soft_count, for every pair a shot holds or returns, every
\* candidate it compares, every pair of the list a slice retains and hands
\* to a re-run shot, and the pair do_the_thing returns; and a shot given the
\* supplied initial solution enters its loop with that loaded timetable and
\* its evaluation.
C24_StoredCostMatchesTimetable ==
    [][/\ \A k \in 1..Len(tasks') :
             (k > Len(tasks) \/ tasks'[k] # tasks[k]) =>
                 /\ TaskMatches(tasks'[k])
                 /\ ( /\ k <= Len(tasks)
                      /\ rounds = 1
                      /\ IsTimetable(cfg.init_timetable)
                      /\ tasks[k].state = "pending"
                      /\ tasks'[k].state = "running" ) =>
                       /\ tasks'[k].timetable = cfg.init_timetable
                       /\ tasks'[k].cost = CostOf(cfg.init_timetable)
       /\ timetables' # timetables =>
             \A i \in 1..Len(timetables') :
                 timetables'[i].cost # -1 => Matches(timetables'[i])
       /\ result' # result => Matches(result')]_vars

\* in a round after a slice of a run from a supplied solution, a shot was
\* handed a pair with its cost, has accepted a candidate since and holds
\* another cost than the one it was handed
C24_Witness ==
    /\ pc = "join"
    /\ rounds >= 2
    /\ IsTimetable(cfg.init_timetable)
    /\ \E k \in 1..Len(tasks) :
          /\ tasks[k].state = "running"
          /\ timetables[k].cost # -1
          /\ tasks[k].approves >= 1
          /\ tasks[k].cost # timetables[k].cost
          /\ tasks[k].timetable # timetables[k].timetable

====
